---- MODULE Spec2Model ----
(***************************************************************************)
(* llmsnap: lifecycle of a managed backend Process (proxy/process.go),     *)
(* its ProcessGroup and the ProxyManager's group swap.                     *)
(*                                                                         *)
(* A Process is a state machine guarded by swapState(); callers are        *)
(* goroutines (HTTP requests, administrative calls, TTL monitors) that     *)
(* interleave at every access to the shared fields.  Each goroutine is a   *)
(* thread with a program counter; each action is one step of one call.     *)
(***************************************************************************)
EXTENDS Integers, Sequences, FiniteSets, TLC

\* ------------------------------------------------------------ bounds
\* concurrent HTTP request goroutines
NumRequests == 2
\* configured sleepEndpoints / wakeEndpoints per model
NumEndpoints == 2
\* TTL monitor goroutines that can be alive at once
MaxMonitors == 2
\* largest ttl (seconds) and largest concurrencyLimit drawn for a model
MaxTTL == 1
MaxLimit == 1
\* largest maxMetrics of a metricsMonitor, the number of records after which
\* no new wrapHandler() call is made, and the longest response body in lines
MaxMetrics == 2
MaxInserts == 3
\* bytes in one Write() call
MaxChunk == 2

\* bytes one handler writes in all
MaxBody == 4

MaxLines == 2

\* longest streamed body, in bytes, handed to the backward scan
MaxScan == 5

\* ------------------------------------------------------------ states
StateStopped == "Stopped"
StateStarting == "Starting"
StateReady == "Ready"
StateSleepPending == "SleepPending"
StateAsleep == "Asleep"
StateWaking == "Waking"
StateStopping == "Stopping"
StateShutdown == "Shutdown"

ProcessState ==
    {StateStopped, StateStarting, StateReady, StateSleepPending,
     StateAsleep, StateWaking, StateStopping, StateShutdown}

\* the configured models, one Process each
Procs == {"m1", "m2", "m3"}

\* the Process the single-process specifications exercise
SoloProcs == {"m1"}

\* the configured groups and their members
Groups == {"G1", "G2", "G3"}

Members == [G1 |-> {"m1", "m2"}, G2 |-> {"m3"}, G3 |-> {}]

groupOf(p) == CHOOSE g \in Groups : p \in Members[g]

ReqThreads == {<<"req", n>> : n \in 1..NumRequests}
AdminThreads == {<<"adm", 1>>}
MonThreads == {<<"mon", n>> : n \in 1..MaxMonitors}
Threads == ReqThreads \cup AdminThreads \cup MonThreads

VARIABLES
    state,         \* p.state
    child,         \* p.cmd: "none", "alive", "exited" (exit not yet reaped)
    stale,         \* a child replaced by a new spawn while still alive
    inflight,      \* p.inFlightRequestsCount
    sem,           \* slots taken in p.concurrencyLimitSemaphore
    waitStarting,  \* sync.WaitGroup counters
    waitSleeping,
    waitWaking,
    idle,          \* whole seconds since p.lastRequestHandled (saturating)
    lastSwap,      \* the swapState()/forceState() call made by the last step
    lastRet,       \* the call that returned in the last step, and its result
    sleepLog,      \* sleep endpoints issued by the latest Sleep(), in order
    cfg,           \* ModelConfig (sleep, ttl, limit) of each model and
                   \* GroupConfig (swap, exclusive, persistent) of each group
    th,            \* goroutines: pc and locals
    metrics,       \* mp.metrics: the stored TokenMetrics, oldest first
    nextID,        \* mp.nextID
    maxMetrics,    \* mp.maxMetrics
    mu,            \* mp.mu: the goroutine holding the lock, or <<>>
    wh,            \* goroutines inside wrapHandler()/addMetrics()
    lastCall,      \* the response the last wrapHandler() call was given
    inserted       \* serial numbers of the records appended, in order

\* the metricsMonitor and its callers
mvars == <<metrics, nextID, maxMetrics, mu, wh, lastCall, inserted>>

\* the Processes, their groups and the goroutines operating on them
pvars ==
    <<state, child, stale, inflight, sem, waitStarting, waitSleeping,
      waitWaking, idle, lastSwap, lastRet, sleepLog, cfg, th>>

vars ==
    <<state, child, stale, inflight, sem, waitStarting, waitSleeping,
      waitWaking, idle, lastSwap, lastRet, sleepLog, cfg, th, metrics,
      nextID, maxMetrics, mu, wh, lastCall, inserted>>

\* ------------------------------------------------------------ swapState
isValidTransitionLoose(from, to) ==
    from # StateShutdown

isValidTransition(from, to) ==
    CASE from = StateStopped -> to = StateStarting
      [] from = StateStarting -> to \in {StateReady, StateStopping, StateStopped}
      [] from = StateReady -> to \in {StateStopping, StateSleepPending}
      [] from = StateStopping -> to \in {StateStopped, StateShutdown}
      [] from = StateShutdown -> FALSE
      [] from = StateSleepPending -> to \in {StateAsleep, StateStopping}
      [] from = StateAsleep -> to \in {StateWaking, StateStopping}
      [] from = StateWaking -> to \in {StateReady, StateStopping}
      [] OTHER -> FALSE

ErrNone == "nil"
ErrExpectedStateMismatch == "ErrExpectedStateMismatch"
ErrInvalidStateTransition == "ErrInvalidStateTransition"

\* outcome of p.swapState(expected, new) when p.state = cur:
\* the new p.state, the state returned to the caller, and the error
swapState(cur, expected, new) ==
    IF cur # expected
    THEN [state |-> cur, ret |-> cur, err |-> ErrExpectedStateMismatch]
    ELSE IF ~isValidTransition(cur, new)
    THEN [state |-> cur, ret |-> cur, err |-> ErrInvalidStateTransition]
    ELSE [state |-> new, ret |-> new, err |-> ErrNone]

\* record written to lastSwap by a swapState call
SwapRecord(p, cur, expected, new) ==
    LET r == swapState(cur, expected, new)
    IN  [kind |-> "swap", p |-> p, from |-> expected, to |-> new,
         before |-> cur, after |-> r.state, ret |-> r.ret, err |-> r.err]

\* record written to lastSwap by a forceState call
ForceRecord(p, cur, new) ==
    [kind |-> "force", p |-> p, from |-> cur, to |-> new, before |-> cur,
     after |-> new, ret |-> new, err |-> ErrNone]

NoSwap ==
    [kind |-> "none", p |-> "m1", from |-> StateStopped, to |-> StateStopped,
     before |-> StateStopped, after |-> StateStopped, ret |-> StateStopped,
     err |-> ErrNone]

\* WaitGroup increment made inside swapState on entering a transitional state
gateAdd(r, gate, new) ==
    IF r.err = ErrNone /\ r.state = new THEN gate + 1 ELSE gate

\* ------------------------------------------------------------ goroutines
\* pc and p: where the goroutine is and the Process it is operating on;
\* tgt, todo, lock: the model a routed request names, the Processes it has
\* still to idle, and the mutex it holds ("pm": ProxyManager, "pg": group)
IdleRec(p) ==
    [pc |-> "idle", p |-> p, i |-> 0, ret |-> "none", tgt |-> "none",
     todo |-> {}, lock |-> "none"]

OffRec(p) == [IdleRec(p) EXCEPT !.pc = "off"]

\* a goroutine's record once the call it was in has returned: a routed
\* request that was idling another Process, or MakeIdleProcesses() (tgt is
\* then the group), goes on with its loop
Returned(t, r) ==
    IF t \in MonThreads THEN OffRec(r.p)
    ELSE IF r.tgt # "none" /\ r.p # r.tgt
    THEN [r EXCEPT !.pc = IF r.tgt \in Groups THEN "mi_loop"
                          ELSE IF r.lock = "pm" THEN "pm_idle" ELSE "pg_idle",
                   !.i = 0, !.ret = "none"]
    ELSE IdleRec(r.p)

NoRet == [t |-> <<>>, p |-> "m1", res |-> "none"]

RetRecord(t, res) == [t |-> t, p |-> th[t].p, res |-> res]

\* goroutine t moves on inside its call
Move(f) == th' = f /\ lastRet' = NoRet /\ UNCHANGED mvars

Goto(t, pc) == Move([th EXCEPT ![t].pc = pc])

\* the top-level call of goroutine t returns res
Return(t, res) ==
    /\ th' = [th EXCEPT ![t] = Returned(t, @)]
    /\ lastRet' = RetRecord(t, res)
    /\ UNCHANGED mvars

\* a step of the environment: no goroutine moves
NoMove == th' = th /\ lastRet' = NoRet /\ UNCHANGED mvars

NoSwapCall == lastSwap' = NoSwap

At(t, pc) == th[t].pc = pc

\* ------------------------------------------------------------ metricsMonitor
StatusOK == 200

\* statuses an upstream response is drawn from
Statuses == {StatusOK, 201, 500}

\* a line of a response body: whether it starts with "data:", and what
\* follows ("" nothing, "[DONE]", a JSON value with usage or timings, a JSON
\* value without them, or text that is not JSON)
Payloads == {"", "[DONE]", "json_usage", "json_plain", "text"}

BodyLines == [prefix : BOOLEAN, data : Payloads]

Bodies == UNION {[1..n -> BodyLines] : n \in 0..MaxLines}

\* the errors next() can return: nil, or one of two distinct errors
NextErrors == {ErrNone, "next_error_1", "next_error_2"}

\* what next() hands back to wrapHandler: its error, and the recorded
\* status, Content-Type (text/event-stream or not) and body
UpstreamResponses ==
    [err : NextErrors, status : Statuses, sse : BOOLEAN, body : Bodies]

\* gjson.ValidBytes() of one payload
ValidBytes(data) == data \in {"json_usage", "json_plain"}

\* usage.Exists() || timings.Exists()
usageOrTimingsExists(data) == data = "json_usage"

\* gjson.ValidBytes(body): one JSON value with only white space around it
ValidBody(body) ==
    LET filled == {i \in DOMAIN body : body[i] # [prefix |-> FALSE, data |-> ""]}
    IN  /\ Cardinality(filled) = 1
        /\ \A i \in filled : ~body[i].prefix /\ ValidBytes(body[i].data)

\* parseMetrics(): the record built from usage and timings; with neither, a
\* record of unknown values.  It returns no error.
parseMetrics(hasUsage) == IF hasUsage THEN "usage" ELSE "unknown"

\* the backward scan of processStreamingResponse() from line pos down
RECURSIVE scanBackwards(_, _, _)
scanBackwards(body, pos, foundValidJSON) ==
    IF pos = 0
    THEN IF foundValidJSON THEN parseMetrics(FALSE) ELSE "error"
    ELSE LET line == body[pos]
         IN  IF ~line.prefix \/ line.data = "" \/ line.data = "[DONE]"
             THEN scanBackwards(body, pos - 1, foundValidJSON)
             ELSE IF ValidBytes(line.data)
             THEN IF usageOrTimingsExists(line.data)
                  THEN parseMetrics(TRUE)
                  ELSE scanBackwards(body, pos - 1, TRUE)
             ELSE scanBackwards(body, pos - 1, foundValidJSON)

processStreamingResponse(body) == scanBackwards(body, Len(body), FALSE)

statusRecordedAny(status) == TRUE

\* recorder.Status() == http.StatusOK
statusRecorded(status) == status = StatusOK

\* the record wrapHandler() passes to addMetrics() for response r, or
\* "none" when it adds nothing
wrapHandlerMetric(r) ==
    IF r.err # ErrNone THEN "none"
    ELSE IF ~statusRecorded(r.status) THEN "none"
    ELSE IF Len(r.body) = 0 THEN "none"
    ELSE IF r.sse
    THEN IF processStreamingResponse(r.body) = "error" THEN "none"
         ELSE processStreamingResponse(r.body)
    ELSE IF ValidBody(r.body)
    THEN parseMetrics(\E i \in DOMAIN r.body :
                          usageOrTimingsExists(r.body[i].data))
    ELSE "none"

wrapHandlerErrorSurfaced(r) ==
    IF r.err # ErrNone THEN r.err
    ELSE IF wrapHandlerMetric(r) = "none" THEN "metrics_error" ELSE ErrNone

\* the error wrapHandler() returns: that of next(), and nil on every path
\* after next() has succeeded
wrapHandlerError(r) ==
    IF r.err # ErrNone THEN r.err ELSE ErrNone

\* newBodyCopier(w, requestTime): nothing sent to the client w, an empty
\* body buffer, start unset; written keeps what the handler passed to Write()
\* and n, err what the last Write() returned
NewCopier ==
    [sent |-> <<>>, body |-> <<>>, written |-> <<>>, started |-> FALSE,
     n |-> 0, err |-> ErrNone]

\* a goroutine outside wrapHandler()
WhIdle ==
    [pc |-> "idle", metric |-> [ID |-> 0, kind |-> "none"], added |-> 0,
     result |-> <<>>, array |-> "none", err |-> ErrNone,
     copier |-> NewCopier]

NoCall ==
    [t |-> <<>>, returned |-> FALSE, kind |-> "none", added |-> 0,
     err |-> ErrNone,
     resp |-> [err |-> ErrNone, status |-> StatusOK, sse |-> FALSE, body |-> <<>>]]

\* newMetricsMonitor(logger, maxMetrics)
InitMetrics(capacities) ==
    /\ metrics = <<>>
    /\ nextID = 0
    /\ maxMetrics \in capacities
    /\ mu = <<>>
    /\ wh = [t \in ReqThreads |-> WhIdle]
    /\ lastCall = NoCall
    /\ inserted = <<>>

\* ------------------------------------------------------------ Init
\* lifecycle specification: no TTL (ttl = 0 disables the monitor)
Configs == [sleep : BOOLEAN, ttl : {0}, limit : 0..MaxLimit]

\* TTL specification: ttl > 0
ConfigsTTL == [sleep : BOOLEAN, ttl : 1..MaxTTL, limit : {0}]

InitProcess(ps) ==
    /\ state = [p \in ps |-> StateStopped]
    /\ child = [p \in ps |-> "none"]
    /\ stale = [p \in ps |-> FALSE]
    /\ inflight = [p \in ps |-> 0]
    /\ sem = [p \in ps |-> 0]
    /\ waitStarting = [p \in ps |-> 0]
    /\ waitSleeping = [p \in ps |-> 0]
    /\ waitWaking = [p \in ps |-> 0]
    /\ idle = [p \in ps |-> 0]
    /\ sleepLog = [p \in ps |-> <<>>]

NoConfig == [sleep |-> FALSE, ttl |-> 0, limit |-> 0]

\* GroupConfig defaults: swap and exclusive are true, persistent is false
DefaultGroup == [swap |-> TRUE, exclusive |-> TRUE, persistent |-> FALSE]

\* the models of SoloProcs configured from cs, the groups left at defaults
SoloConfigs(cs) ==
    {pc @@ [g \in Groups |-> DefaultGroup] :
        pc \in {f \in [Procs -> cs \cup {NoConfig}] :
                    \A p \in Procs : IF p \in SoloProcs THEN f[p] \in cs
                                      ELSE f[p] = NoConfig}}

Init ==
    /\ InitProcess(Procs)
    /\ cfg \in SoloConfigs(Configs)
    /\ InitMetrics({MaxMetrics})
    /\ lastSwap = NoSwap
    /\ lastRet = NoRet
    /\ th = [t \in Threads |->
                IF t \in MonThreads THEN OffRec("m1") ELSE IdleRec("m1")]

\* ------------------------------------------------------------ config
\* len(SleepEndpoints) > 0 && len(WakeEndpoints) > 0
isSleepEnabled(p) == cfg[p].sleep

\* ------------------------------------------------------------ helpers
SwapWithoutForce(p, expected, new) ==
    /\ state' = [state EXCEPT ![p] = swapState(state[p], expected, new).state]
    /\ lastSwap' = SwapRecord(p, state[p], expected, new)

\* the swapState-else-forceState idiom: the state always becomes new
SwapOrForce(p, expected, new) ==
    /\ state' = [state EXCEPT ![p] = new]
    /\ lastSwap' = IF swapState(state[p], expected, new).err = ErrNone
                   THEN SwapRecord(p, state[p], expected, new)
                   ELSE ForceRecord(p, state[p], new)

\* a plain swapState call
Swap(p, expected, new) ==
    /\ state' = [state EXCEPT ![p] = swapState(state[p], expected, new).state]
    /\ lastSwap' = SwapRecord(p, state[p], expected, new)

SwapOk(p, expected, new) == swapState(state[p], expected, new).err = ErrNone

\* HTTP outcomes of one request to the upstream
Responses == {"2xx", "non2xx", "transport_error"}

\* what the upstream can answer: nothing listens once the child is gone
Upstream(p) == IF child[p] = "alive" THEN Responses ELSE {"transport_error"}

\* nil iff the request got a response with 200 <= status < 300
sendHTTPRequest(resp) == resp = "2xx"

MonitorSlotsAlways(p) ==
    {m \in MonThreads :
        /\ th[m].pc = "off"
        /\ \A o \in MonThreads : th[o].pc = "off" => m[2] <= o[2]}

\* startUnloadMonitoring(): spawn a TTL goroutine when UnloadAfter > 0.
\* Gives the goroutine slots it can take (the empty slot <<>> when ttl = 0).
MonitorSlots(p) ==
    IF cfg[p].ttl > 0
    THEN {m \in MonThreads :
            /\ th[m].pc = "off"
            /\ \A o \in MonThreads : th[o].pc = "off" => m[2] <= o[2]}
    ELSE {<<>>}

WithMonitor(f, m, p) ==
    IF m = <<>> THEN f
    ELSE [f EXCEPT ![m] = [OffRec(p) EXCEPT !.pc = "mon_tick"]]

\* ------------------------------------------------------------ calls
\* an HTTP request for model p arrives at Process.ProxyRequest
CallProxyRequest(t, p) ==
    /\ t \in ReqThreads /\ At(t, "idle")
    /\ Move([th EXCEPT ![t] =
            [IdleRec(p) EXCEPT !.pc = "pr_entry"]])
    /\ NoSwapCall
    /\ UNCHANGED <<state, child, stale, inflight, sem, waitStarting,
                   waitSleeping, waitWaking, idle, sleepLog, cfg>>

AdminOps ==
    [Stop |-> "sp_inflight", StopImmediately |-> "si_swap",
     Sleep |-> "sl_check", Shutdown |-> "sd_swap"]

\* an administrative call on p, one of ops
CallAdminOp(t, p, ops) ==
    /\ t \in AdminThreads /\ At(t, "idle")
    /\ \E op \in ops :
          Move([th EXCEPT ![t] =
            [IdleRec(p) EXCEPT !.pc = AdminOps[op], !.ret = "return"]])
    /\ NoSwapCall
    /\ UNCHANGED <<state, child, stale, inflight, sem, waitStarting,
                   waitSleeping, waitWaking, idle, sleepLog, cfg>>

\* Stop(), StopImmediately(), Sleep() or Shutdown() is called on p
CallAdmin(t, p) == CallAdminOp(t, p, DOMAIN AdminOps)

\* Sleep() is called on p
CallSleep(t, p) == CallAdminOp(t, p, {"Sleep"})

\* ------------------------------------------------------------ ProxyRequest
\* where a request goes after observing the Process state s
ProxyDispatch(s) ==
    CASE s \in {StateShutdown, StateStopping} -> "fail"
      [] s = StateReady -> "pr_inc"
      [] s \in {StateStopped, StateStarting} -> "st_swap"
      [] s \in {StateAsleep, StateSleepPending, StateWaking} -> "wk_check"

ProxyRequest_entry(t) ==
    LET p == th[t].p
        d == ProxyDispatch(state[p])
    IN  /\ At(t, "pr_entry")
        /\ IF d = "fail" THEN Return(t, "err_state") ELSE Goto(t, d)
        /\ NoSwapCall
        /\ UNCHANGED <<state, child, stale, inflight, sem, waitStarting,
                       waitSleeping, waitWaking, idle, sleepLog, cfg>>

\* inFlightRequestsCount.Add(1)
ProxyRequest_inc(t) ==
    LET p == th[t].p
    IN  /\ At(t, "pr_inc")
        /\ inflight' = [inflight EXCEPT ![p] = @ + 1]
        /\ Move([th EXCEPT ![t].pc = "pr_sem", ![t].lock = "none"])
        /\ NoSwapCall
        /\ UNCHANGED <<state, child, stale, sem, waitStarting, waitSleeping,
                       waitWaking, idle, sleepLog, cfg>>

deferredDecrementSkipped(n) == n

\* the deferred finalizer of ProxyRequest: inFlightRequestsCount.Add(-1)
deferredDecrement(n) == n - 1

semaphoreFreeAlways(p) == TRUE

\* the concurrency gate has a free slot (limit 0: no gate)
semaphoreFree(p) == cfg[p].limit = 0 \/ sem[p] < cfg[p].limit

\* acquire a slot of the concurrency gate, or give up at the deadline
ProxyRequest_sem(t) ==
    LET p == th[t].p
    IN  /\ At(t, "pr_sem")
        /\ \/ /\ semaphoreFree(p)
              /\ sem' = [sem EXCEPT ![p] = IF cfg[p].limit = 0 THEN @ ELSE @ + 1]
              /\ Goto(t, "pr_fwd")
              /\ UNCHANGED inflight
           \/ /\ ~semaphoreFree(p)
              /\ inflight' = [inflight EXCEPT ![p] = deferredDecrement(@)]
              /\ Return(t, "err_rejected")
              /\ UNCHANGED sem
        /\ NoSwapCall
        /\ UNCHANGED <<state, child, stale, waitStarting, waitSleeping,
                       waitWaking, idle, sleepLog, cfg>>

\* the reverse proxy returns; the deferred finalizer runs
ProxyRequest_done(t) ==
    LET p == th[t].p
    IN  /\ At(t, "pr_fwd")
        /\ \E resp \in Upstream(p) \cup {"cancelled"} :
              Return(t, IF resp = "2xx" THEN "served" ELSE "err_upstream")
        /\ sem' = [sem EXCEPT ![p] = IF cfg[p].limit = 0 THEN @ ELSE @ - 1]
        /\ idle' = [idle EXCEPT ![p] = 0]
        /\ inflight' = [inflight EXCEPT ![p] = deferredDecrement(@)]
        /\ NoSwapCall
        /\ UNCHANGED <<state, child, stale, waitStarting, waitSleeping,
                       waitWaking, sleepLog, cfg>>

\* ------------------------------------------------------------ start()
start_swap(t) ==
    LET p == th[t].p
        r == swapState(state[p], StateStopped, StateStarting)
    IN  /\ At(t, "st_swap")
        /\ Swap(p, StateStopped, StateStarting)
        /\ waitStarting' = [waitStarting EXCEPT ![p] = gateAdd(r, @, StateStarting)]
        /\ IF r.err = ErrNone THEN Goto(t, "st_spawn")
           ELSE IF r.err = ErrExpectedStateMismatch /\ r.ret = StateStarting
           THEN Goto(t, "st_wait")
           ELSE Return(t, "err_start")
        /\ UNCHANGED <<child, stale, inflight, sem, waitSleeping, waitWaking,
                       idle, sleepLog, cfg>>

\* waitStarting.Wait(), then look at the state the other start() reached
start_wait(t) ==
    LET p == th[t].p
    IN  /\ At(t, "st_wait")
        /\ waitStarting[p] = 0
        /\ IF state[p] = StateReady THEN Goto(t, "pr_inc")
           ELSE Return(t, "err_start")
        /\ NoSwapCall
        /\ UNCHANGED <<state, child, stale, inflight, sem, waitStarting,
                       waitSleeping, waitWaking, idle, sleepLog, cfg>>

\* p.cmd.Start(): the child is spawned, or the spawn fails
start_spawn(t) ==
    LET p == th[t].p
    IN  /\ At(t, "st_spawn")
        /\ \/ /\ child' = [child EXCEPT ![p] = "alive"]
              /\ stale' = [stale EXCEPT ![p] = @ \/ child[p] = "alive"]
              /\ Goto(t, "st_health")
              /\ NoSwapCall
              /\ UNCHANGED <<state, waitStarting>>
           \/ /\ SwapOrForce(p, StateStarting, StateStopped)
              /\ waitStarting' = [waitStarting EXCEPT ![p] = @ - 1]
              /\ Return(t, "err_start")
              /\ UNCHANGED <<child, stale>>
        /\ UNCHANGED <<inflight, sem, waitSleeping, waitWaking, idle, sleepLog,
                       cfg>>

healthCheckNeverInterrupted(currentState) == FALSE

\* the health check loop of start() gives up: currentState != StateStarting
healthCheckInterrupted(currentState) == currentState # StateStarting

\* one round of the health check loop of start()
start_health(t) ==
    LET p == th[t].p
    IN  /\ At(t, "st_health")
        /\ IF healthCheckInterrupted(state[p])
           THEN /\ waitStarting' = [waitStarting EXCEPT ![p] = @ - 1]
                /\ Return(t, "err_start")
           ELSE /\ \/ Move([th EXCEPT ![t].pc = "sc_kill", ![t].ret = "st_timeout"])
                   \/ /\ \E resp \in Upstream(p) : sendHTTPRequest(resp)
                      /\ Goto(t, "st_ready")
                /\ UNCHANGED waitStarting
        /\ NoSwapCall
        /\ UNCHANGED <<state, child, stale, inflight, sem, waitSleeping,
                       waitWaking, idle, sleepLog, cfg>>

\* start() returns the timeout error after stopCommand()
start_timeout(t) ==
    LET p == th[t].p
    IN  /\ At(t, "st_timeout")
        /\ waitStarting' = [waitStarting EXCEPT ![p] = @ - 1]
        /\ Return(t, "err_start")
        /\ NoSwapCall
        /\ UNCHANGED <<state, child, stale, inflight, sem, waitSleeping,
                       waitWaking, idle, sleepLog, cfg>>

\* startUnloadMonitoring(), then swapState(StateStarting, StateReady)
start_ready(t) ==
    LET p == th[t].p
        ok == SwapOk(p, StateStarting, StateReady)
    IN  /\ At(t, "st_ready")
        /\ Swap(p, StateStarting, StateReady)
        /\ waitStarting' = [waitStarting EXCEPT ![p] = @ - 1]
        /\ \E m \in MonitorSlots(p) :
              th' = WithMonitor(
                      [th EXCEPT ![t] = IF ok THEN [@ EXCEPT !.pc = "pr_inc"]
                                        ELSE Returned(t, @)], m, p)
        /\ lastRet' = IF ok THEN NoRet ELSE RetRecord(t, "err_start")
        /\ UNCHANGED mvars
        /\ UNCHANGED <<child, stale, inflight, sem, waitSleeping, waitWaking,
                       idle, sleepLog, cfg>>

\* ------------------------------------------------------------ wake()
wake_check(t) ==
    LET p == th[t].p
    IN  /\ At(t, "wk_check")
        /\ IF state[p] = StateWaking THEN Goto(t, "wk_wait")
           ELSE IF state[p] # StateAsleep /\ state[p] # StateSleepPending
           THEN Return(t, "err_wake")
           ELSE Goto(t, "wk_swap")
        /\ NoSwapCall
        /\ UNCHANGED <<state, child, stale, inflight, sem, waitStarting,
                       waitSleeping, waitWaking, idle, sleepLog, cfg>>

\* waitWaking.Wait(), then look at the state the other wake() reached
wake_wait(t) ==
    LET p == th[t].p
    IN  /\ At(t, "wk_wait")
        /\ waitWaking[p] = 0
        /\ IF state[p] = StateReady THEN Goto(t, "pr_inc")
           ELSE Return(t, "err_wake")
        /\ NoSwapCall
        /\ UNCHANGED <<state, child, stale, inflight, sem, waitStarting,
                       waitSleeping, waitWaking, idle, sleepLog, cfg>>

\* the state wake() expects to swap from
wakeExpectedState(cur) ==
    IF cur = StateSleepPending THEN StateSleepPending ELSE StateAsleep

wake_swap(t) ==
    LET p == th[t].p
        e == wakeExpectedState(state[p])
        r == swapState(state[p], e, StateWaking)
    IN  /\ At(t, "wk_swap")
        /\ Swap(p, e, StateWaking)
        /\ waitWaking' = [waitWaking EXCEPT ![p] = gateAdd(r, @, StateWaking)]
        /\ IF r.err = ErrNone
           THEN Move([th EXCEPT ![t].pc = "wk_cmd", ![t].i = 1])
           ELSE Return(t, "err_wake")
        /\ UNCHANGED <<child, stale, inflight, sem, waitStarting, waitSleeping,
                       idle, sleepLog, cfg>>

\* sendWakeRequests(): one wake endpoint per step, in array order; on the
\* first failure wake() swaps (or forces) to Stopped and returns the error
wake_cmd(t) ==
    LET p == th[t].p
    IN  /\ At(t, "wk_cmd")
        /\ \E resp \in Upstream(p) :
              IF sendHTTPRequest(resp)
              THEN /\ Move([th EXCEPT ![t] =
                        IF @.i < NumEndpoints THEN [@ EXCEPT !.i = @ + 1]
                        ELSE [@ EXCEPT !.pc = "wk_health", !.i = 0]])
                   /\ NoSwapCall
                   /\ UNCHANGED <<state, waitWaking>>
              ELSE /\ SwapOrForce(p, StateWaking, StateStopped)
                   /\ waitWaking' = [waitWaking EXCEPT ![p] = @ - 1]
                   /\ Return(t, "err_wake_cmd")
        /\ UNCHANGED <<child, stale, inflight, sem, waitStarting, waitSleeping,
                       idle, sleepLog, cfg>>

\* one round of the post-wake health check loop: pass, or time out
wake_health(t) ==
    LET p == th[t].p
    IN  /\ At(t, "wk_health")
        /\ \/ /\ \E resp \in Upstream(p) : sendHTTPRequest(resp)
              /\ Goto(t, "wk_ready")
           \/ Move([th EXCEPT ![t].pc = "sc_kill", ![t].ret = "wk_hfail"])
        /\ NoSwapCall
        /\ UNCHANGED <<state, child, stale, inflight, sem, waitStarting,
                       waitSleeping, waitWaking, idle, sleepLog, cfg>>

\* after stopCommand() on health timeout: swap (or force) to Stopped
wake_hfail(t) ==
    LET p == th[t].p
    IN  /\ At(t, "wk_hfail")
        /\ SwapOrForce(p, StateWaking, StateStopped)
        /\ waitWaking' = [waitWaking EXCEPT ![p] = @ - 1]
        /\ Return(t, "err_wake_health")
        /\ UNCHANGED <<child, stale, inflight, sem, waitStarting, waitSleeping,
                       idle, sleepLog, cfg>>

\* swapState(StateWaking, StateReady), then startUnloadMonitoring()
wake_ready(t) ==
    LET p == th[t].p
        ok == SwapOk(p, StateWaking, StateReady)
    IN  /\ At(t, "wk_ready")
        /\ Swap(p, StateWaking, StateReady)
        /\ waitWaking' = [waitWaking EXCEPT ![p] = @ - 1]
        /\ IF ok
           THEN \E m \in MonitorSlots(p) :
                   Move(WithMonitor([th EXCEPT ![t].pc = "pr_inc"], m, p))
           ELSE Return(t, "err_wake")
        /\ UNCHANGED <<child, stale, inflight, sem, waitStarting, waitSleeping,
                       idle, sleepLog, cfg>>

\* ------------------------------------------------------------ Sleep()
Sleep_check(t) ==
    LET p == th[t].p
    IN  /\ At(t, "sl_check")
        /\ IF ~isSleepEnabled(p) THEN Return(t, "sleep_disabled")
           ELSE IF state[p] = StateSleepPending THEN Goto(t, "sl_wait")
           ELSE IF state[p] = StateAsleep THEN Return(t, "sleep_ok")
           ELSE IF ~isValidTransition(state[p], StateSleepPending)
           THEN Return(t, "sleep_invalid")
           ELSE Goto(t, "sl_inflight")
        /\ NoSwapCall
        /\ UNCHANGED <<state, child, stale, inflight, sem, waitStarting,
                       waitSleeping, waitWaking, idle, sleepLog, cfg>>

\* waitSleeping.Wait(), then look at the state the other Sleep() reached
Sleep_wait(t) ==
    LET p == th[t].p
    IN  /\ At(t, "sl_wait")
        /\ waitSleeping[p] = 0
        /\ Return(t, IF state[p] = StateAsleep THEN "sleep_ok" ELSE "err_sleep")
        /\ NoSwapCall
        /\ UNCHANGED <<state, child, stale, inflight, sem, waitStarting,
                       waitSleeping, waitWaking, idle, sleepLog, cfg>>

\* wait for in-flight requests to complete
Sleep_inflight(t) ==
    LET p == th[t].p
    IN  /\ At(t, "sl_inflight")
        /\ inflight[p] = 0
        /\ Goto(t, "sl_swap")
        /\ NoSwapCall
        /\ UNCHANGED <<state, child, stale, inflight, sem, waitStarting,
                       waitSleeping, waitWaking, idle, sleepLog, cfg>>

Sleep_swap(t) ==
    LET p == th[t].p
        r == swapState(state[p], StateReady, StateSleepPending)
    IN  /\ At(t, "sl_swap")
        /\ Swap(p, StateReady, StateSleepPending)
        /\ waitSleeping' = [waitSleeping EXCEPT ![p] = gateAdd(r, @, StateSleepPending)]
        /\ IF r.err = ErrNone
           THEN /\ Move([th EXCEPT ![t].pc = "sl_cmd", ![t].i = 1])
                /\ sleepLog' = [sleepLog EXCEPT ![p] = <<>>]
           ELSE /\ Return(t, "err_sleep")
                /\ UNCHANGED sleepLog
        /\ UNCHANGED <<child, stale, inflight, sem, waitStarting, waitWaking,
                       idle, cfg>>

sendSleepRequestsNextKeepGoing(i, ok) ==
    IF i < NumEndpoints THEN "next" ELSE "done"

\* the loop of sendSleepRequests() after endpoint i answered: go on to
\* the next endpoint, finish, or return the error of the first failure
sendSleepRequestsNext(i, ok) ==
    IF ~ok THEN "fail"
    ELSE IF i < NumEndpoints THEN "next" ELSE "done"

\* sendSleepRequests(): one sleep endpoint per step, in array order
Sleep_cmd(t) ==
    LET p == th[t].p
        i == th[t].i
    IN  /\ At(t, "sl_cmd")
        /\ \E resp \in Upstream(p) :
              LET ok == sendHTTPRequest(resp)
                  n == sendSleepRequestsNext(i, ok)
              IN  /\ sleepLog' = [sleepLog EXCEPT ![p] =
                                    Append(@, [ep |-> i, ok |-> ok])]
                  /\ Move([th EXCEPT ![t] =
                        CASE n = "next" -> [@ EXCEPT !.i = i + 1]
                          [] n = "done" -> [@ EXCEPT !.pc = "sl_ok", !.i = 0]
                          [] n = "fail" -> [@ EXCEPT !.pc = "sl_fail", !.i = 0]])
        /\ NoSwapCall
        /\ UNCHANGED <<state, child, stale, inflight, sem, waitStarting,
                       waitSleeping, waitWaking, idle, cfg>>

\* all sleep requests succeeded: swapState(StateSleepPending, StateAsleep)
Sleep_ok(t) ==
    LET p == th[t].p
        ok == SwapOk(p, StateSleepPending, StateAsleep)
    IN  /\ At(t, "sl_ok")
        /\ Swap(p, StateSleepPending, StateAsleep)
        /\ waitSleeping' = [waitSleeping EXCEPT ![p] = @ - 1]
        /\ Return(t, IF ok THEN "sleep_ok" ELSE "err_sleep")
        /\ sleepLog' = [sleepLog EXCEPT ![p] = <<>>]
        /\ UNCHANGED <<child, stale, inflight, sem, waitStarting, waitWaking,
                       idle, cfg>>

\* a sleep request failed: swapState(StateSleepPending, StateStopping),
\* then fall back to stopping the child
Sleep_fail(t) ==
    LET p == th[t].p
    IN  /\ At(t, "sl_fail")
        /\ Swap(p, StateSleepPending, StateStopping)
        /\ Move([th EXCEPT ![t].pc = "sc_kill", ![t].ret = "sl_failed"])
        /\ UNCHANGED <<child, stale, inflight, sem, waitStarting, waitSleeping,
                       waitWaking, idle, sleepLog, cfg>>

\* Sleep() returns after the fallback stop
Sleep_failed(t) ==
    LET p == th[t].p
    IN  /\ At(t, "sl_failed")
        /\ waitSleeping' = [waitSleeping EXCEPT ![p] = @ - 1]
        /\ Return(t, "err_sleep")
        /\ sleepLog' = [sleepLog EXCEPT ![p] = <<>>]
        /\ NoSwapCall
        /\ UNCHANGED <<state, child, stale, inflight, sem, waitStarting,
                       waitWaking, idle, cfg>>

\* ------------------------------------------------------------ Stop()
\* Stop(): wait for in-flight requests to finish, then StopImmediately()
Stop_inflight(t) ==
    LET p == th[t].p
    IN  /\ At(t, "sp_inflight")
        /\ inflight[p] = 0
        /\ Goto(t, "si_swap")
        /\ NoSwapCall
        /\ UNCHANGED <<state, child, stale, inflight, sem, waitStarting,
                       waitSleeping, waitWaking, idle, sleepLog, cfg>>

\* StopImmediately(): move toward Stopping from whatever state allows it,
\* then stopCommand(); otherwise nothing to do
StopImmediately_swap(t) ==
    LET p == th[t].p
        ok == SwapOk(p, state[p], StateStopping)
    IN  /\ At(t, "si_swap")
        /\ Swap(p, state[p], StateStopping)
        /\ IF ok THEN Goto(t, "sc_kill") ELSE Return(t, "stop_noop")
        /\ UNCHANGED <<child, stale, inflight, sem, waitStarting, waitSleeping,
                       waitWaking, idle, sleepLog, cfg>>

\* stopCommand(): terminate the child ...
stopCommand_kill(t) ==
    LET p == th[t].p
    IN  /\ At(t, "sc_kill")
        /\ child' = [child EXCEPT ![p] = IF @ = "alive" THEN "exited" ELSE @]
        /\ Goto(t, "sc_wait")
        /\ NoSwapCall
        /\ UNCHANGED <<state, stale, inflight, sem, waitStarting, waitSleeping,
                       waitWaking, idle, sleepLog, cfg>>

\* ... and wait until its exit has been reaped (cmdWaitChan)
stopCommand_wait(t) ==
    LET p == th[t].p
    IN  /\ At(t, "sc_wait")
        /\ child[p] # "exited"
        /\ IF th[t].ret = "return" THEN Return(t, "stopped")
           ELSE Move([th EXCEPT ![t].pc = th[t].ret, ![t].ret = "none"])
        /\ NoSwapCall
        /\ UNCHANGED <<state, child, stale, inflight, sem, waitStarting,
                       waitSleeping, waitWaking, idle, sleepLog, cfg>>

\* ------------------------------------------------------------ Shutdown()
\* Shutdown(): stop the child as StopImmediately() does ...
Shutdown_swap(t) ==
    LET p == th[t].p
        ok == SwapOk(p, state[p], StateStopping)
    IN  /\ At(t, "sd_swap")
        /\ Swap(p, state[p], StateStopping)
        /\ Move([th EXCEPT ![t].pc = IF ok THEN "sc_kill" ELSE "sd_final",
                             ![t].ret = IF ok THEN "sd_final" ELSE "none"])
        /\ UNCHANGED <<child, stale, inflight, sem, waitStarting, waitSleeping,
                       waitWaking, idle, sleepLog, cfg>>

\* ... then enter the terminal state
Shutdown_final(t) ==
    LET p == th[t].p
    IN  /\ At(t, "sd_final")
        /\ SwapOrForce(p, state[p], StateShutdown)
        /\ Return(t, "shutdown")
        /\ UNCHANGED <<child, stale, inflight, sem, waitStarting, waitSleeping,
                       waitWaking, idle, sleepLog, cfg>>

\* ------------------------------------------------------------ the child
\* the child exits on its own (crash, OOM, external kill)
ChildExit(p) ==
    /\ child[p] = "alive"
    /\ child' = [child EXCEPT ![p] = "exited"]
    /\ NoSwapCall
    /\ NoMove
    /\ UNCHANGED <<state, stale, inflight, sem, waitStarting, waitSleeping,
                   waitWaking, idle, sleepLog, cfg>>

\* waitForCmd(): cmd.Wait() returned; Stopping -> Stopped by swapState,
\* any other state is forced to Stopped
waitForCmd(p) ==
    /\ child[p] = "exited"
    /\ child' = [child EXCEPT ![p] = "none"]
    /\ SwapOrForce(p, StateStopping, StateStopped)
    /\ NoMove
    /\ UNCHANGED <<stale, inflight, sem, waitStarting, waitSleeping,
                   waitWaking, idle, sleepLog, cfg>>

\* ------------------------------------------------------------ TTL monitor
\* time.Since(p.getLastRequestHandled()) > maxDuration
ttlExpired(p) == idle[p] > cfg[p].ttl

unloadActionSleepIfEnabled(p) ==
    IF isSleepEnabled(p) THEN "sl_check" ELSE "sp_inflight"

\* what the monitor calls when the TTL is reached: always Stop()
unloadAction(p) == "sp_inflight"

\* one tick of the UnloadAfter goroutine
Monitor_tick(m) ==
    LET p == th[m].p
    IN  /\ m \in MonThreads /\ At(m, "mon_tick")
        /\ IF state[p] # StateReady THEN Return(m, "none")
           ELSE /\ inflight[p] = 0
                /\ ttlExpired(p)
                /\ Move([th EXCEPT ![m].pc = unloadAction(p),
                                     ![m].ret = "return"])
        /\ NoSwapCall
        /\ UNCHANGED <<state, child, stale, inflight, sem, waitStarting,
                       waitSleeping, waitWaking, idle, sleepLog, cfg>>

\* a second passes without a request being handled
ClockTick(p) ==
    /\ cfg[p].ttl > 0
    /\ idle[p] <= cfg[p].ttl
    /\ idle' = [idle EXCEPT ![p] = @ + 1]
    /\ NoSwapCall
    /\ NoMove
    /\ UNCHANGED <<state, child, stale, inflight, sem, waitStarting,
                   waitSleeping, waitWaking, sleepLog, cfg>>

\* ------------------------------------------------------------ Spec
\* the steps a goroutine can take whatever else is running
StepAlone(t) ==
    \/ ProxyRequest_entry(t) \/ ProxyRequest_inc(t) \/ ProxyRequest_sem(t)
    \/ ProxyRequest_done(t)
    \/ start_swap(t) \/ start_spawn(t) \/ start_health(t)
    \/ start_timeout(t) \/ start_ready(t)
    \/ wake_check(t) \/ wake_swap(t) \/ wake_cmd(t)
    \/ wake_health(t) \/ wake_hfail(t) \/ wake_ready(t)
    \/ Sleep_check(t) \/ Sleep_inflight(t) \/ Sleep_swap(t)
    \/ Sleep_cmd(t) \/ Sleep_ok(t) \/ Sleep_fail(t) \/ Sleep_failed(t)
    \/ Stop_inflight(t) \/ StopImmediately_swap(t)
    \/ stopCommand_kill(t) \/ stopCommand_wait(t)

\* the steps of a request that finds another one starting or waking
StepGate(t) == start_wait(t) \/ wake_wait(t)

StepShutdown(t) == Shutdown_swap(t) \/ Shutdown_final(t)

StepShared(t) == StepGate(t) \/ StepShutdown(t)

Step(t) == StepAlone(t) \/ StepShared(t)

Next ==
    \/ \E t \in Threads, p \in SoloProcs : CallProxyRequest(t, p)
    \/ \E t \in Threads, p \in SoloProcs : CallAdmin(t, p)
    \/ \E t \in Threads : Step(t)
    \/ \E p \in Procs : ChildExit(p)
    \/ \E p \in Procs : waitForCmd(p)

Spec == Init /\ [][Next]_vars

\* ------------------------------------------------------------ SpecTTL
\* the same Process configured with ttl > 0: start() and wake() spawn the
\* UnloadAfter goroutine and the clock advances
InitTTL ==
    /\ InitProcess(Procs)
    /\ cfg \in SoloConfigs(ConfigsTTL)
    /\ InitMetrics({MaxMetrics})
    /\ lastSwap = NoSwap
    /\ lastRet = NoRet
    /\ th = [t \in Threads |->
                IF t \in MonThreads THEN OffRec("m1") ELSE IdleRec("m1")]

NextTTL ==
    \/ \E p \in SoloProcs : CallProxyRequest(<<"req", 1>>, p)
    \/ \E t \in Threads, p \in SoloProcs : CallSleep(t, p)
    \/ \E t \in Threads : StepAlone(t)
    \/ \E p \in Procs : ChildExit(p)
    \/ \E p \in Procs : waitForCmd(p)
    \/ \E m \in MonThreads : Monitor_tick(m)
    \/ \E p \in Procs : ClockTick(p)

SpecTTL == InitTTL /\ [][NextTTL]_vars

\* ------------------------------------------------------------ SpecNoTTL
\* a Process configured with ttl = 0 or ttl = 1; the clock advances for both
ConfigsNoTTL == [sleep : BOOLEAN, ttl : {0, 1}, limit : {0}]

InitNoTTL ==
    /\ InitProcess(Procs)
    /\ cfg \in SoloConfigs(ConfigsNoTTL)
    /\ InitMetrics({MaxMetrics})
    /\ lastSwap = NoSwap
    /\ lastRet = NoRet
    /\ th = [t \in Threads |->
                IF t \in MonThreads THEN OffRec("m1") ELSE IdleRec("m1")]

\* a second passes without a request being handled, on a Process without TTL
ClockTickIdle(p) ==
    /\ cfg[p].ttl = 0
    /\ idle[p] <= MaxTTL
    /\ idle' = [idle EXCEPT ![p] = @ + 1]
    /\ NoSwapCall
    /\ NoMove
    /\ UNCHANGED <<state, child, stale, inflight, sem, waitStarting,
                   waitSleeping, waitWaking, sleepLog, cfg>>

NextNoTTL ==
    \/ NextTTL
    \/ \E p \in SoloProcs : ClockTickIdle(p)

SpecNoTTL == InitNoTTL /\ [][NextNoTTL]_vars

\* ------------------------------------------------------------ routing
\* no goroutine holds the ProxyManager mutex
pmFree == \A t \in Threads : th[t].lock # "pm"

pgFreeAlways(g) == TRUE

\* no goroutine holds the mutex of group g
pgFree(g) ==
    \A t \in Threads : ~(th[t].lock = "pg" /\ groupOf(th[t].tgt) = g)

MakeIdleAlwaysStop(p) == "sp_inflight"

\* Process.MakeIdle(): Sleep() when sleep is configured, otherwise Stop()
MakeIdle(p) == IF isSleepEnabled(p) THEN "sl_check" ELSE "sp_inflight"

displacedByAny(g) == UNION {Members[o] : o \in Groups \ {g}}

\* the Processes swapProcessGroup idles before activating group g: the
\* members of every other group that is not persistent, when g is exclusive
displacedBy(g) ==
    IF cfg[g].exclusive
    THEN UNION {Members[o] : o \in {o \in Groups \ {g} : ~cfg[o].persistent}}
    ELSE {}

groupSwapsAlways(g) == TRUE

\* GroupConfig.swap: only one member of the group runs at a time
groupSwaps(g) == cfg[g].swap

siblingsOfNone(m) == {}

\* the Processes ProcessGroup.ProxyRequest idles before making m ready:
\* every other member, when the group swaps
siblingsOf(m) ==
    IF groupSwaps(groupOf(m)) THEN Members[groupOf(m)] \ {m} ELSE {}

\* a request naming model m arrives at the ProxyManager
CallRoutedRequest(t, m) ==
    /\ t \in ReqThreads /\ At(t, "idle")
    /\ Move([th EXCEPT ![t] =
            [IdleRec(m) EXCEPT !.pc = "pm_lock", !.tgt = m]])
    /\ NoSwapCall
    /\ UNCHANGED <<state, child, stale, inflight, sem, waitStarting,
                   waitSleeping, waitWaking, idle, sleepLog, cfg>>

\* swapProcessGroup(): take the ProxyManager mutex and decide whom to idle
swapProcessGroup_lock(t) ==
    /\ At(t, "pm_lock")
    /\ pmFree
    /\ Move([th EXCEPT ![t].pc = "pm_idle", ![t].lock = "pm",
                        ![t].todo = displacedBy(groupOf(th[t].tgt))])
    /\ NoSwapCall
    /\ UNCHANGED <<state, child, stale, inflight, sem, waitStarting,
                   waitSleeping, waitWaking, idle, sleepLog, cfg>>

\* MakeIdleProcesses() / the sibling loop: MakeIdle() the next Process
MakeIdle_next(t) ==
    /\ th[t].pc \in {"pm_idle", "pg_idle", "mi_loop"}
    /\ \E m \in th[t].todo :
          Move([th EXCEPT ![t].p = m, ![t].pc = MakeIdle(m),
                          ![t].ret = "return", ![t].todo = @ \ {m}])
    /\ NoSwapCall
    /\ UNCHANGED <<state, child, stale, inflight, sem, waitStarting,
                   waitSleeping, waitWaking, idle, sleepLog, cfg>>

\* swapProcessGroup() returns: the mutex is released, the group routes
swapProcessGroup_unlock(t) ==
    /\ At(t, "pm_idle")
    /\ th[t].todo = {}
    /\ Move([th EXCEPT ![t].pc = "pg_lock", ![t].lock = "none",
                        ![t].p = th[t].tgt])
    /\ NoSwapCall
    /\ UNCHANGED <<state, child, stale, inflight, sem, waitStarting,
                   waitSleeping, waitWaking, idle, sleepLog, cfg>>

\* ProcessGroup.ProxyRequest(): a swapping group takes its mutex and idles
\* the siblings; any other group hands the request to the member
ProcessGroup_lock(t) ==
    LET g == groupOf(th[t].tgt)
    IN  /\ At(t, "pg_lock")
        /\ IF groupSwaps(g)
           THEN /\ pgFree(g)
                /\ Move([th EXCEPT ![t].pc = "pg_idle", ![t].lock = "pg",
                                    ![t].todo = siblingsOf(th[t].tgt)])
           ELSE Goto(t, "pr_entry")
        /\ NoSwapCall
        /\ UNCHANGED <<state, child, stale, inflight, sem, waitStarting,
                       waitSleeping, waitWaking, idle, sleepLog, cfg>>

\* the siblings are idle: make the target ready and serve the request
ProcessGroup_makeReady(t) ==
    /\ At(t, "pg_idle")
    /\ th[t].todo = {}
    /\ Move([th EXCEPT ![t].pc = "pr_entry", ![t].p = th[t].tgt])
    /\ NoSwapCall
    /\ UNCHANGED <<state, child, stale, inflight, sem, waitStarting,
                   waitSleeping, waitWaking, idle, sleepLog, cfg>>

\* ------------------------------------------------------------ SpecGroup
\* group G1 = {m1, m2} swaps and is exclusive; group G2 = {m3} is not
\* exclusive and may be persistent; group G3 has no members; m2 has no sleep endpoints, m1 and m3 may
\* have; the children do not die on their own
GroupConfigs ==
    {pc @@ gc :
        pc \in {f \in [Procs -> [sleep : BOOLEAN, ttl : {0}, limit : {0}]] :
                    ~f["m2"].sleep},
        gc \in {[G1 |-> DefaultGroup,
                 G2 |-> [swap |-> FALSE, exclusive |-> FALSE,
                         persistent |-> b],
                 G3 |-> DefaultGroup] : b \in BOOLEAN}}

InitGroup ==
    /\ InitProcess(Procs)
    /\ cfg \in GroupConfigs
    /\ InitMetrics({MaxMetrics})
    /\ lastSwap = NoSwap
    /\ lastRet = NoRet
    /\ th = [t \in Threads |->
                IF t \in MonThreads THEN OffRec("m1") ELSE IdleRec("m1")]

StepRoute(t) ==
    \/ swapProcessGroup_lock(t) \/ MakeIdle_next(t)
    \/ swapProcessGroup_unlock(t)
    \/ ProcessGroup_lock(t) \/ ProcessGroup_makeReady(t)

NextGroup ==
    \/ \E t \in Threads, m \in Procs : CallRoutedRequest(t, m)
    \/ \E t \in Threads : StepRoute(t)
    \/ \E t \in Threads : StepAlone(t)
    \/ \E t \in Threads : StepGate(t)
    \/ \E p \in Procs : waitForCmd(p)

SpecGroup == InitGroup /\ [][NextGroup]_vars

\* ------------------------------------------------------------ SpecSwapFair
\* concurrent requests for the members of the swap group G1, with upstreams
\* that work: every spawn succeeds, every health check and every sleep or
\* wake endpoint answers 2xx, and no client cancels.  m1 may have sleep
\* endpoints.
SwapConfigs ==
    {c \in GroupConfigs : ~c["m3"].sleep /\ ~c["G2"].persistent}

InitSwap ==
    /\ InitProcess(Procs)
    /\ cfg \in SwapConfigs
    /\ InitMetrics({MaxMetrics})
    /\ lastSwap = NoSwap
    /\ lastRet = NoRet
    /\ th = [t \in Threads |->
                IF t \in MonThreads THEN OffRec("m1") ELSE IdleRec("m1")]

\* the steps of a call when the upstream works
StepHealthy(t) ==
    \/ ProxyRequest_entry(t) \/ ProxyRequest_inc(t) \/ ProxyRequest_sem(t)
    \/ (ProxyRequest_done(t) /\ lastRet'.res = "served")
    \/ start_swap(t)
    \/ (start_spawn(t) /\ th'[t].pc = "st_health")
    \/ (start_health(t) /\ th'[t].pc # "sc_kill")
    \/ start_ready(t)
    \/ wake_check(t) \/ wake_swap(t)
    \/ (wake_cmd(t) /\ lastRet'.t # t)
    \/ (wake_health(t) /\ th'[t].pc # "sc_kill")
    \/ wake_ready(t)
    \/ Sleep_check(t) \/ Sleep_inflight(t) \/ Sleep_swap(t)
    \/ (Sleep_cmd(t) /\ th'[t].pc # "sl_fail")
    \/ Sleep_ok(t)
    \/ Stop_inflight(t) \/ StopImmediately_swap(t)
    \/ stopCommand_kill(t) \/ stopCommand_wait(t)

\* every step of request goroutine t once its request has arrived
RequestStep(t) == StepRoute(t) \/ StepHealthy(t)

NextSwap ==
    \/ \E t \in ReqThreads, m \in Members["G1"] : CallRoutedRequest(t, m)
    \/ \E t \in ReqThreads : StepRoute(t)
    \/ \E t \in ReqThreads : StepHealthy(t)
    \/ \E p \in Procs : waitForCmd(p)

\* goroutines keep running, sync.Mutex hands the lock to every waiter in
\* the end, and an exited child is reaped
SpecSwapFair ==
    /\ InitSwap
    /\ [][NextSwap]_vars
    /\ \A t \in ReqThreads : SF_vars(RequestStep(t))
    /\ \A p \in Procs : WF_vars(waitForCmd(p))

\* ------------------------------------------------------------ SpecNoSwap
\* group G1 = {m1, m2} does not swap; G1 may be exclusive, and then
\* displaces m3 of the default group G2; m3 may have sleep endpoints
NoSwapConfigs ==
    {pc @@ gc :
        pc \in {f \in [Procs -> [sleep : BOOLEAN, ttl : {0}, limit : {0}]] :
                    ~f["m1"].sleep /\ ~f["m2"].sleep},
        gc \in {[G1 |-> [swap |-> FALSE, exclusive |-> b,
                         persistent |-> FALSE],
                 G2 |-> DefaultGroup, G3 |-> DefaultGroup] : b \in BOOLEAN}}

InitNoSwap ==
    /\ InitProcess(Procs)
    /\ cfg \in NoSwapConfigs
    /\ InitMetrics({MaxMetrics})
    /\ lastSwap = NoSwap
    /\ lastRet = NoRet
    /\ th = [t \in Threads |->
                IF t \in MonThreads THEN OffRec("m1") ELSE IdleRec("m1")]

\* the steps of requests for Processes that are started and never slept
StepStarted(t) ==
    \/ swapProcessGroup_lock(t) \/ MakeIdle_next(t)
    \/ swapProcessGroup_unlock(t) \/ ProcessGroup_lock(t)
    \/ ProxyRequest_entry(t) \/ ProxyRequest_inc(t) \/ ProxyRequest_sem(t)
    \/ ProxyRequest_done(t)
    \/ start_swap(t) \/ start_wait(t) \/ start_spawn(t) \/ start_health(t)
    \/ start_timeout(t) \/ start_ready(t)
    \/ Sleep_check(t)
    \/ Stop_inflight(t) \/ StopImmediately_swap(t)
    \/ stopCommand_kill(t) \/ stopCommand_wait(t)

NextNoSwap ==
    \/ \E t \in ReqThreads, m \in Members["G1"] : CallRoutedRequest(t, m)
    \/ \E t \in ReqThreads : StepStarted(t)
    \/ \E p \in Procs : waitForCmd(p)

SpecNoSwap == InitNoSwap /\ [][NextNoSwap]_vars

\* ------------------------------------------------------------ SpecIdle
\* ProcessGroup.MakeIdleProcesses() is called on group g whose members are
\* all Ready, while no request is being handled
CallMakeIdleProcesses(t, g) ==
    /\ t \in AdminThreads /\ At(t, "idle")
    /\ \A u \in ReqThreads : At(u, "idle")
    /\ \A s \in Members[g] : state[s] = StateReady
    /\ Move([th EXCEPT ![t] =
            [IdleRec("m1") EXCEPT !.pc = "mi_loop", !.tgt = g,
                                  !.todo = Members[g]]])
    /\ NoSwapCall
    /\ UNCHANGED <<state, child, stale, inflight, sem, waitStarting,
                   waitSleeping, waitWaking, idle, sleepLog, cfg>>

\* MakeIdleProcesses() returns once MakeIdle() has returned for every member
MakeIdleProcesses_return(t) ==
    /\ At(t, "mi_loop")
    /\ th[t].todo = {}
    /\ th' = [th EXCEPT ![t] = IdleRec("m1")]
    /\ lastRet' = RetRecord(t, "idled")
    /\ NoSwapCall
    /\ UNCHANGED mvars
    /\ UNCHANGED <<state, child, stale, inflight, sem, waitStarting,
                   waitSleeping, waitWaking, idle, sleepLog, cfg>>

\* m1 and m2 may each have sleep endpoints
IdleConfigs ==
    {pc @@ [g \in Groups |-> DefaultGroup] :
        pc \in {f \in [Procs -> [sleep : BOOLEAN, ttl : {0}, limit : {0}]] :
                    ~f["m3"].sleep}}

InitIdle ==
    /\ InitProcess(Procs)
    /\ cfg \in IdleConfigs
    /\ InitMetrics({MaxMetrics})
    /\ lastSwap = NoSwap
    /\ lastRet = NoRet
    /\ th = [t \in Threads |->
                IF t \in MonThreads THEN OffRec("m1") ELSE IdleRec("m1")]

\* one request at a time brings Processes to Ready; between requests
\* MakeIdleProcesses() is called on a group
NextIdle ==
    \/ \E p \in Procs :
          /\ \A t \in AdminThreads : At(t, "idle")
          /\ CallProxyRequest(<<"req", 1>>, p)
    \/ \E t \in AdminThreads, g \in Groups : CallMakeIdleProcesses(t, g)
    \/ \E t \in AdminThreads : MakeIdle_next(t)
    \/ \E t \in AdminThreads : MakeIdleProcesses_return(t)
    \/ \E t \in Threads : StepAlone(t)
    \/ \E p \in Procs : waitForCmd(p)

SpecIdle == InitIdle /\ [][NextIdle]_vars

\* ------------------------------------------------------------ SpecStopFair
\* one request at a time and Stop(), StopImmediately() or Sleep() calls on the same
\* Process; every goroutine that can take a step eventually does, and the
\* exit of a child is eventually reaped
NextStop ==
    \/ \E p \in SoloProcs : CallProxyRequest(<<"req", 1>>, p)
    \/ \E t \in AdminThreads, p \in SoloProcs :
          CallAdminOp(t, p, {"Stop", "StopImmediately", "Sleep"})
    \/ \E t \in Threads : StepAlone(t)
    \/ \E p \in Procs : ChildExit(p)
    \/ \E p \in Procs : waitForCmd(p)

SpecStopFair ==
    /\ Init /\ [][NextStop]_vars
    /\ \A t \in ReqThreads \cup AdminThreads : WF_vars(StepAlone(t))
    /\ \A p \in Procs : WF_vars(waitForCmd(p))

\* ------------------------------------------------------------ SpecStopWait
\* concurrent requests and Stop() or Sleep() calls on one Process: every
\* StopImmediately() here is the second half of a Stop()
NextStopWait ==
    \/ \E t \in ReqThreads, p \in SoloProcs : CallProxyRequest(t, p)
    \/ \E t \in AdminThreads, p \in SoloProcs :
          CallAdminOp(t, p, {"Stop", "Sleep"})
    \/ \E t \in Threads : StepAlone(t) \/ StepGate(t)
    \/ \E p \in Procs : ChildExit(p)
    \/ \E p \in Procs : waitForCmd(p)

SpecStopWait == Init /\ [][NextStopWait]_vars

\* ------------------------------------------------------------ SpecMetrics
\* a goroutine moves on inside wrapHandler()/addMetrics()
WhGoto(t, pc) == wh' = [wh EXCEPT ![t].pc = pc]

NoCallReturn == lastCall' = NoCall

\* wrapHandler(): next() has returned response r; either nothing is to be
\* added, or addMetrics() is called with the parsed record
wrapHandler(t, r) ==
    LET kind == wrapHandlerMetric(r)
    IN  /\ wh[t].pc = "idle"
        /\ nextID < MaxInserts
        /\ wh' = [wh EXCEPT ![t] =
                    [pc |-> IF kind = "none" THEN "wh_return" ELSE "am_lock",
                     added |-> 0, metric |-> [ID |-> 0, kind |-> kind],
                     result |-> <<>>, array |-> "none",
                     err |-> wrapHandlerError(r), copier |-> NewCopier]]
        /\ lastCall' = [t |-> t, returned |-> FALSE, kind |-> kind,
                        added |-> 0, err |-> ErrNone, resp |-> r]
        /\ UNCHANGED <<metrics, nextID, maxMetrics, mu, inserted>>
        /\ UNCHANGED pvars

\* the goroutines that hold mp.mu for reading
readers == {t \in ReqThreads : wh[t].pc \in {"gm_make", "gm_copy", "gm_unlock"}}

muFreeAlways == TRUE

\* mp.mu is held neither for writing nor for reading
muFree == mu = <<>> /\ readers = {}

muUnwrittenAlways == TRUE

\* mp.mu is not held for writing
muUnwritten == mu = <<>>

\* mp.mu.Lock()
addMetrics_lock(t) ==
    /\ wh[t].pc = "am_lock"
    /\ muFree
    /\ mu' = t
    /\ WhGoto(t, "am_id")
    /\ NoCallReturn
    /\ UNCHANGED <<metrics, nextID, maxMetrics, inserted>>
    /\ UNCHANGED pvars

\* metric.ID = mp.nextID
addMetrics_id(t) ==
    /\ wh[t].pc = "am_id"
    /\ wh' = [wh EXCEPT ![t].pc = "am_inc", ![t].metric.ID = nextID]
    /\ NoCallReturn
    /\ UNCHANGED <<metrics, nextID, maxMetrics, mu, inserted>>
    /\ UNCHANGED pvars

\* mp.nextID++
addMetrics_inc(t) ==
    /\ wh[t].pc = "am_inc"
    /\ nextID' = nextID + 1
    /\ WhGoto(t, "am_append")
    /\ NoCallReturn
    /\ UNCHANGED <<metrics, maxMetrics, mu, inserted>>
    /\ UNCHANGED pvars

keepAll(ms, n) == ms

\* mp.metrics[len(mp.metrics)-mp.maxMetrics:] when longer than maxMetrics
keepLast(ms, n) ==
    IF Len(ms) > n THEN SubSeq(ms, Len(ms) - n + 1, Len(ms)) ELSE ms

\* mp.metrics = append(mp.metrics, metric)
addMetrics_append(t) ==
    /\ wh[t].pc = "am_append"
    /\ metrics' = Append(metrics, wh[t].metric)
    /\ inserted' = Append(inserted, wh[t].metric)
    /\ wh' = [wh EXCEPT ![t].pc = "am_trim", ![t].added = @ + 1]
    /\ NoCallReturn
    /\ UNCHANGED <<nextID, maxMetrics, mu>>
    /\ UNCHANGED pvars

\* if len(mp.metrics) > mp.maxMetrics: cut down to the last maxMetrics
addMetrics_trim(t) ==
    /\ wh[t].pc = "am_trim"
    /\ metrics' = keepLast(metrics, maxMetrics)
    /\ WhGoto(t, "am_unlock")
    /\ NoCallReturn
    /\ UNCHANGED <<nextID, maxMetrics, mu, inserted>>
    /\ UNCHANGED pvars

\* event.Emit() and the deferred mp.mu.Unlock()
addMetrics_unlock(t) ==
    /\ wh[t].pc = "am_unlock"
    /\ mu' = <<>>
    /\ WhGoto(t, "wh_return")
    /\ NoCallReturn
    /\ UNCHANGED <<metrics, nextID, maxMetrics, inserted>>
    /\ UNCHANGED pvars

\* wrapHandler() returns
wrapHandler_return(t) ==
    /\ wh[t].pc = "wh_return"
    /\ wh' = [wh EXCEPT ![t] = WhIdle]
    /\ lastCall' = [NoCall EXCEPT !.t = t, !.returned = TRUE,
                                  !.kind = wh[t].metric.kind,
                                  !.added = wh[t].added,
                                  !.err = wh[t].err]
    /\ UNCHANGED <<metrics, nextID, maxMetrics, mu, inserted>>
    /\ UNCHANGED pvars

\* responses with a one-line plain body: a JSON value with or without usage,
\* text that is not JSON, or a blank line
OneLineResponses ==
    {r \in UpstreamResponses :
        /\ r.err = ErrNone /\ r.status = StatusOK /\ ~r.sse
        /\ Len(r.body) = 1 /\ ~r.body[1].prefix}

InitMetricsMonitor ==
    /\ InitProcess(Procs)
    /\ cfg \in SoloConfigs({NoConfig})
    /\ InitMetrics(0..MaxMetrics)
    /\ lastSwap = NoSwap
    /\ lastRet = NoRet
    /\ th = [t \in Threads |->
                IF t \in MonThreads THEN OffRec("m1") ELSE IdleRec("m1")]

addMetrics(t) ==
    \/ addMetrics_lock(t) \/ addMetrics_id(t) \/ addMetrics_inc(t)
    \/ addMetrics_append(t) \/ addMetrics_trim(t) \/ addMetrics_unlock(t)

\* concurrent requests, each answered with a one-line body
NextMetrics ==
    \/ \E t \in ReqThreads, r \in OneLineResponses : wrapHandler(t, r)
    \/ \E t \in ReqThreads : addMetrics(t)
    \/ \E t \in ReqThreads : wrapHandler_return(t)

SpecMetrics == InitMetricsMonitor /\ [][NextMetrics]_vars

\* one request at a time, answered with any response
NextWrapHandler ==
    \/ \E r \in UpstreamResponses : wrapHandler(<<"req", 1>>, r)
    \/ addMetrics(<<"req", 1>>)
    \/ wrapHandler_return(<<"req", 1>>)

SpecWrapHandler == InitMetricsMonitor /\ [][NextWrapHandler]_vars

\* ------------------------------------------------------------ getMetrics()
\* a zero-valued TokenMetrics
ZeroMetric == [ID |-> 0, kind |-> "none"]

\* getMetrics() is called
getMetrics_call(t) ==
    /\ wh[t].pc = "idle"
    /\ WhGoto(t, "gm_rlock")
    /\ NoCallReturn
    /\ UNCHANGED <<metrics, nextID, maxMetrics, mu, inserted>>
    /\ UNCHANGED pvars

\* mp.mu.RLock()
getMetrics_rlock(t) ==
    /\ wh[t].pc = "gm_rlock"
    /\ muUnwritten
    /\ WhGoto(t, "gm_make")
    /\ NoCallReturn
    /\ UNCHANGED <<metrics, nextID, maxMetrics, mu, inserted>>
    /\ UNCHANGED pvars

makeShared == "mp.metrics"

\* the backing array of a slice that make() returns: a new one
make == "new"

\* result := make([]TokenMetrics, len(mp.metrics))
getMetrics_make(t) ==
    /\ wh[t].pc = "gm_make"
    /\ wh' = [wh EXCEPT ![t].pc = "gm_copy",
                        ![t].array = make,
                        ![t].result = [i \in 1..Len(metrics) |-> ZeroMetric]]
    /\ NoCallReturn
    /\ UNCHANGED <<metrics, nextID, maxMetrics, mu, inserted>>
    /\ UNCHANGED pvars

\* copy(dst, src): the first min(len(dst), len(src)) elements of src over dst
copy(dst, src) ==
    [i \in DOMAIN dst |-> IF i <= Len(src) THEN src[i] ELSE dst[i]]

\* copy(result, mp.metrics)
getMetrics_copy(t) ==
    /\ wh[t].pc = "gm_copy"
    /\ wh' = [wh EXCEPT ![t].pc = "gm_unlock",
                        ![t].result = copy(@, metrics)]
    /\ NoCallReturn
    /\ UNCHANGED <<metrics, nextID, maxMetrics, mu, inserted>>
    /\ UNCHANGED pvars

\* the deferred mp.mu.RUnlock(); getMetrics() returns result to its caller
getMetrics_unlock(t) ==
    /\ wh[t].pc = "gm_unlock"
    /\ WhGoto(t, "gm_returned")
    /\ NoCallReturn
    /\ UNCHANGED <<metrics, nextID, maxMetrics, mu, inserted>>
    /\ UNCHANGED pvars

getMetrics(t) ==
    \/ getMetrics_call(t) \/ getMetrics_rlock(t) \/ getMetrics_make(t)
    \/ getMetrics_copy(t) \/ getMetrics_unlock(t)

\* the caller writes an element of the slice it was given,
\* metrics1[0].Model = "modified"; the write lands in the slice's backing array
ModifyElement(t) ==
    /\ wh[t].pc = "gm_returned"
    /\ \E i \in DOMAIN wh[t].result :
          /\ wh' = [wh EXCEPT ![t].result[i].kind = "modified"]
          /\ metrics' = IF wh[t].array = "mp.metrics" /\ i \in DOMAIN metrics
                            THEN [metrics EXCEPT ![i].kind = "modified"]
                            ELSE metrics
    /\ NoCallReturn
    /\ UNCHANGED <<nextID, maxMetrics, mu, inserted>>
    /\ UNCHANGED pvars

\* the caller reslices the slice it was given, metrics1 = metrics1[:len-1]
Reslice(t) ==
    /\ wh[t].pc = "gm_returned"
    /\ wh[t].result # <<>>
    /\ wh' = [wh EXCEPT ![t].result = SubSeq(@, 1, Len(@) - 1)]
    /\ NoCallReturn
    /\ UNCHANGED <<metrics, nextID, maxMetrics, mu, inserted>>
    /\ UNCHANGED pvars

\* the caller is done with the slice
DropResult(t) ==
    /\ wh[t].pc = "gm_returned"
    /\ wh' = [wh EXCEPT ![t] = WhIdle]
    /\ NoCallReturn
    /\ UNCHANGED <<metrics, nextID, maxMetrics, mu, inserted>>
    /\ UNCHANGED pvars

\* writers in wrapHandler()/addMetrics() and readers in getMetrics()
NextSnapshot ==
    \/ NextMetrics
    \/ \E t \in ReqThreads : getMetrics(t)
    \/ \E t \in ReqThreads : ModifyElement(t) \/ Reslice(t) \/ DropResult(t)

SpecSnapshot == InitMetricsMonitor /\ [][NextSnapshot]_vars

\* ------------------------------------------------------------ responseBodyCopier
Bytes == {"x", "y"}

\* what the handler passes to one Write() call
Chunks == UNION {[1..n -> Bytes] : n \in 0..MaxChunk}

bufferWriteDropping(body, b) ==
    IF Len(body) + Len(b) > MaxChunk THEN body ELSE body \o b

\* bytes.Buffer.Write(b): the buffer grows by b
bufferWrite(body, b) == body \o b

\* io.MultiWriter(w, bodyBuffer).Write(b), the client's writer w taking the
\* first k bytes of b: a short write of w ends the call before the buffer
multiWriterWrite(c, b, k) ==
    IF k < Len(b)
    THEN [c EXCEPT !.sent = @ \o SubSeq(b, 1, k),
                   !.n = k, !.err = "short write"]
    ELSE [c EXCEPT !.sent = @ \o b,
                   !.body = bufferWrite(@, b),
                   !.n = Len(b), !.err = ErrNone]

\* recorder := newBodyCopier(writer, requestStartTime); next() begins
newBodyCopier(t) ==
    /\ wh[t].pc = "idle"
    /\ wh' = [wh EXCEPT ![t].pc = "next", ![t].copier = NewCopier]
    /\ NoCallReturn
    /\ UNCHANGED <<metrics, nextID, maxMetrics, mu, inserted>>
    /\ UNCHANGED pvars

\* responseBodyCopier.Write(b): sets start on the first call, then one write
\* through the tee
Write(t, b, k) ==
    /\ wh[t].pc = "next"
    /\ Len(wh[t].copier.written) + Len(b) <= MaxBody
    /\ wh' = [wh EXCEPT ![t].copier =
                 [multiWriterWrite(@, b, k) EXCEPT
                     !.started = TRUE, !.written = @ \o b]]
    /\ NoCallReturn
    /\ UNCHANGED <<metrics, nextID, maxMetrics, mu, inserted>>
    /\ UNCHANGED pvars

\* next() returns and the recorder is dropped
DropCopier(t) ==
    /\ wh[t].pc = "next"
    /\ wh' = [wh EXCEPT ![t] = WhIdle]
    /\ NoCallReturn
    /\ UNCHANGED <<metrics, nextID, maxMetrics, mu, inserted>>
    /\ UNCHANGED pvars

\* one handler writing a response through the tee
NextTee ==
    \/ newBodyCopier(<<"req", 1>>)
    \/ \E b \in Chunks, k \in 0..MaxChunk :
          k <= Len(b) /\ Write(<<"req", 1>>, b, k)
    \/ DropCopier(<<"req", 1>>)

SpecTee == InitMetricsMonitor /\ [][NextTee]_vars

\* ------------------------------------------------------------ properties
\* goroutines of p that have incremented the in-flight counter and have
\* not yet run the deferred decrement
Counted(p) ==
    {t \in ReqThreads : th[t].p = p /\ th[t].pc \in {"pr_sem", "pr_fwd"}}

\* requests being forwarded to the upstream of p
Forwarding(p) == {t \in ReqThreads : th[t].p = p /\ th[t].pc = "pr_fwd"}

\* the edge list as the specification states it
ClaimEdges ==
    {<<StateStopped, StateStarting>>, <<StateStarting, StateReady>>,
     <<StateStarting, StateStopped>>, <<StateReady, StateStopping>>,
     <<StateReady, StateSleepPending>>, <<StateSleepPending, StateAsleep>>,
     <<StateSleepPending, StateStopping>>, <<StateAsleep, StateWaking>>,
     <<StateAsleep, StateStopping>>, <<StateWaking, StateReady>>,
     <<StateWaking, StateStopping>>, <<StateWaking, StateStopped>>,
     <<StateStopping, StateStopped>>, <<StateStopping, StateShutdown>>,
     <<StateStopped, StateShutdown>>}

\* the edge list swapState enforces
SwapEdges ==
    {<<StateStopped, StateStarting>>, <<StateStarting, StateReady>>,
     <<StateStarting, StateStopping>>, <<StateStarting, StateStopped>>,
     <<StateReady, StateStopping>>, <<StateReady, StateSleepPending>>,
     <<StateSleepPending, StateAsleep>>, <<StateSleepPending, StateStopping>>,
     <<StateAsleep, StateWaking>>, <<StateAsleep, StateStopping>>,
     <<StateWaking, StateReady>>, <<StateWaking, StateStopping>>,
     <<StateStopping, StateStopped>>, <<StateStopping, StateShutdown>>}

\* a swapState call recorded in r was rejected: state unchanged, the
\* current state reported, an error returned
Rejected(r) == r.err # ErrNone /\ r.after = r.before /\ r.ret = r.before

\* a swapState call recorded in r was accepted
Accepted(r) == r.err = ErrNone /\ r.after = r.to /\ r.ret = r.to

\* C1 as stated: every state change is an edge of the specification's
\* list, and a swap off that list or with the wrong `from` is rejected.
C1_AsStated ==
    [][\A p \in Procs :
        /\ state'[p] # state[p] => <<state[p], state'[p]>> \in ClaimEdges
        /\ (lastSwap'.kind = "swap" /\ lastSwap'.p = p
            /\ (<<lastSwap'.from, lastSwap'.to>> \notin ClaimEdges
                \/ lastSwap'.from # state[p]))
           => Rejected(lastSwap') /\ state'[p] = state[p]]_vars

\* C1 amended: every state change is made by a swapState call along an edge
\* of SwapEdges or by a forceState call to Stopped or Shutdown; a swapState
\* call is accepted iff `from` is the current state and the pair is in
\* SwapEdges, and otherwise leaves the state unchanged and reports it.
C1_SwapStateEdges ==
    [][\A p \in Procs :
        /\ state'[p] # state[p] =>
              /\ lastSwap'.kind \in {"swap", "force"}
              /\ lastSwap'.p = p
              /\ lastSwap'.after = state'[p]
        /\ (lastSwap'.kind = "swap" /\ lastSwap'.p = p) =>
              /\ lastSwap'.before = state[p]
              /\ state'[p] = lastSwap'.after
              /\ IF lastSwap'.from = state[p]
                    /\ <<lastSwap'.from, lastSwap'.to>> \in SwapEdges
                 THEN Accepted(lastSwap')
                 ELSE Rejected(lastSwap')
        /\ (lastSwap'.kind = "force" /\ lastSwap'.p = p) =>
              /\ lastSwap'.to \in {StateStopped, StateShutdown}
              /\ state'[p] = lastSwap'.to]_vars

\* C1 witness: StopImmediately() during Starting is accepted
\* (Starting -> Stopping), an edge outside the specification's list
C1_Witness ==
    /\ lastSwap.kind = "swap"
    /\ lastSwap.from = StateStarting /\ lastSwap.to = StateStopping
    /\ Accepted(lastSwap)
    /\ state[lastSwap.p] = StateStopping

\* no call is in progress on p and no exit of its child waits to be reaped
Quiescent(p) ==
    /\ child[p] # "exited"
    /\ \A t \in Threads : th[t].p = p => th[t].pc \in {"idle", "off"}

\* C2 as stated, in the part that concerns a Stopped Process: a Process
\* never has a second OS child, and a Stopped Process on which no call is in
\* progress has no live child (Stopped is not one of Starting, Ready,
\* SleepPending, Asleep, Waking, Stopping).
C2_AsStated ==
    \A p \in Procs :
        /\ ~stale[p]
        /\ (Quiescent(p) /\ state[p] = StateStopped) => child[p] # "alive"

\* C5 as stated (wake part): a request that finds the Process Asleep or
\* SleepPending when its wake() swaps moves it to Waking.
C5_AsStated ==
    [][\A t \in ReqThreads :
        (/\ th[t].pc = "wk_swap"
         /\ th'[t] # th[t]
         /\ state[th[t].p] \in {StateAsleep, StateSleepPending})
        => state'[th[t].p] = StateWaking]_vars

\* C6: the in-flight counter always equals the number of ProxyRequest calls
\* that have incremented it and not yet returned; so it is never negative,
\* every such call decrements it exactly once on every return path, and it
\* is 0 when no request is in progress.
C6_InflightCounted ==
    \A p \in Procs :
        /\ inflight[p] = Cardinality(Counted(p))
        /\ inflight[p] >= 0

\* C6 witness: a counted request returned on an error path and the counter
\* is back to 0
C6_Witness ==
    /\ lastRet.res = "err_upstream"
    /\ inflight[lastRet.p] = 0
    /\ Counted(lastRet.p) = {}

\* C7: with concurrencyLimit = N > 0 at most N requests are being forwarded;
\* with concurrencyLimit = 0 no request waits at the gate or is rejected.
C7_ConcurrencyGate ==
    \A p \in Procs :
        /\ cfg[p].limit > 0 => Cardinality(Forwarding(p)) <= cfg[p].limit
        /\ cfg[p].limit = 0 =>
              /\ ~(lastRet.res = "err_rejected" /\ lastRet.p = p)
              /\ sem[p] = 0
              /\ \A t \in ReqThreads : th[t].pc = "pr_sem" => semaphoreFree(p)

\* C7 witness: the gate is full (N requests forwarded) and another request
\* waits at it
C7_Witness ==
    \E p \in Procs, t \in ReqThreads :
        /\ cfg[p].limit > 0
        /\ Cardinality(Forwarding(p)) = cfg[p].limit
        /\ th[t].p = p /\ th[t].pc = "pr_sem"

\* C8 as stated: when wake() returns an error after a wake endpoint or the
\* post-wake health check failed, the Process is Stopped and the child has
\* been killed.
C8_AsStated ==
    lastRet.res \in {"err_wake_cmd", "err_wake_health"} =>
        /\ state[lastRet.p] = StateStopped
        /\ child[lastRet.p] # "alive"

\* the sleep endpoints issued so far are 1, 2, ... in order and only the
\* last one issued may have failed
SleepLogInOrder(p) ==
    \A k \in 1..Len(sleepLog[p]) :
        /\ sleepLog[p][k].ep = k
        /\ k < Len(sleepLog[p]) => sleepLog[p][k].ok

\* C9: Sleep() issues the sleep endpoints in order and stops at the first
\* failure; when all succeeded it swaps SleepPending -> Asleep without
\* touching the child; when one failed it swaps SleepPending -> Stopping,
\* kills the child, the reaped child leaves the Process Stopped, and Sleep()
\* returns the error without issuing any further endpoint.
C9_SleepSequence ==
    [][\A p \in Procs :
        /\ SleepLogInOrder(p)'
        /\ (state[p] = StateSleepPending /\ state'[p] = StateAsleep) =>
              /\ child'[p] \in {"alive", "exited"}
              /\ child'[p] = child[p]
        /\ (child[p] = "exited" /\ child'[p] = "none"
            /\ state[p] = StateStopping) => state'[p] = StateStopped
        /\ \A t \in Threads : th[t].p = p =>
              /\ th'[t].pc = "sl_ok" =>
                    /\ Len(sleepLog'[p]) = NumEndpoints
                    /\ \A k \in 1..NumEndpoints : sleepLog'[p][k].ok
              /\ th'[t].pc = "sl_fail" =>
                    /\ Len(sleepLog'[p]) >= 1
                    /\ ~sleepLog'[p][Len(sleepLog'[p])].ok
              /\ (th[t].pc = "sl_ok" /\ th'[t] # th[t]) =>
                    IF state[p] = StateSleepPending
                    THEN state'[p] = StateAsleep /\ lastRet'.res = "sleep_ok"
                    ELSE state'[p] = state[p] /\ lastRet'.res = "err_sleep"
              /\ (th[t].pc = "sl_fail" /\ th'[t] # th[t]) =>
                    /\ th'[t].pc = "sc_kill"
                    /\ state[p] = StateSleepPending => state'[p] = StateStopping
              /\ (th[t].pc = "sc_kill" /\ th[t].ret = "sl_failed"
                  /\ th'[t] # th[t]) => child'[p] # "alive"
              /\ (th[t].pc = "sl_failed" /\ th'[t] # th[t]) =>
                    lastRet' = [t |-> t, p |-> p, res |-> "err_sleep"]]_vars

\* C9 witness: the first sleep endpoint failed and Sleep() stopped there,
\* leaving the second endpoint unissued
C9_Witness ==
    \E t \in Threads :
        /\ th[t].pc = "sl_fail"
        /\ Len(sleepLog[th[t].p]) = 1
        /\ Len(sleepLog[th[t].p]) < NumEndpoints
        /\ ~sleepLog[th[t].p][1].ok

SleepPcs ==
    {"sl_check", "sl_wait", "sl_inflight", "sl_swap", "sl_cmd", "sl_ok",
     "sl_fail", "sl_failed"}

AwakeMembers(g, idleStates) == {p \in Members[g] : state[p] \notin idleStates}

\* C3 as stated: in a group with swap = true at most one member is in a
\* state other than Stopped or Shutdown.
C3_AsStated ==
    \A g \in Groups :
        cfg[g].swap =>
            Cardinality(AwakeMembers(g, {StateStopped, StateShutdown})) <= 1

\* C3: in a group with swap = true, at every instant at most one member is
\* in a state other than Stopped, Shutdown or Asleep (an idled member that
\* has sleep configured stays Asleep), for any interleaving of requests for
\* its members.
C3_AtMostOneAwake ==
    \A g \in Groups :
        cfg[g].swap =>
            Cardinality(AwakeMembers(g, {StateStopped, StateShutdown,
                                         StateAsleep})) <= 1

\* C3 witness: a request for m2 put its sleep-configured sibling m1 to sleep
\* and m2 is Ready
C3_Witness ==
    /\ cfg["G1"].swap
    /\ state["m1"] = StateAsleep
    /\ state["m2"] = StateReady
    /\ child["m1"] = "alive" /\ child["m2"] = "alive"

\* C4 as stated: when a request activates a model of an exclusive group,
\* each MakeIdle() that swapProcessGroup calls on a member of another
\* non-persistent group returns with that member idle (Asleep or Stopped),
\* before the requested model is made ready.
C4_AsStated ==
    [][\A t \in ReqThreads :
        (th[t].lock = "pm" /\ th[t].p # th[t].tgt /\ lastRet'.t = t) =>
            state'[th[t].p] \in {StateAsleep, StateStopped}]_vars

\* C11 as stated (safety part): the TTL monitor's Stop() takes a Ready
\* Process to Stopping only while its in-flight counter is 0 and at least
\* ttl has elapsed since lastRequestHandled.
C11_AsStated ==
    [][\A m \in MonThreads :
        (/\ th[m].pc = "si_swap"
         /\ state[th[m].p] = StateReady
         /\ state'[th[m].p] = StateStopping)
        => /\ inflight[th[m].p] = 0
           /\ idle[th[m].p] >= cfg[th[m].p].ttl]_vars

\* C12: after any addMetrics calls, concurrent ones included, the i-th
\* record appended has ID i - 1 (IDs 0, 1, 2, ... each used once), and when
\* no call is inside addMetrics the stored records are the last
\* min(maxMetrics, number of appends) records appended, in order, so their
\* IDs are strictly increasing.
C12_MetricsIDs ==
    /\ \A i \in DOMAIN inserted : inserted[i].ID = i - 1
    /\ \A i, j \in DOMAIN metrics : i < j => metrics[i].ID < metrics[j].ID
    /\ LET n == Len(inserted)
           k == IF n < maxMetrics THEN n ELSE maxMetrics
       IN  (\A t \in ReqThreads : wh[t].pc # "am_trim") =>
               /\ Len(metrics) = k
               /\ metrics = SubSeq(inserted, n - k + 1, n)

\* C12 witness: two goroutines are inside addMetrics at once (one holds the
\* lock, the other waits for it) and an older record has been evicted
C12_Witness ==
    /\ \E t, u \in ReqThreads :
          /\ t # u
          /\ wh[t].pc = "am_lock"
          /\ wh[u].pc \in {"am_id", "am_inc", "am_append", "am_trim",
                            "am_unlock"}
    /\ maxMetrics > 0
    /\ Len(inserted) > maxMetrics
    /\ metrics[1].ID > 0

\* wrapHandler() has just been given lastCall.resp by a next() that
\* returned no error
Completed ==
    lastCall.t # <<>> /\ ~lastCall.returned /\ lastCall.resp.err = ErrNone

\* the body is non-empty valid JSON or, for an SSE response, has at least
\* one "data:" line whose payload is valid JSON
ParsableBody(r) ==
    /\ Len(r.body) > 0
    /\ IF r.sse
       THEN \E i \in DOMAIN r.body :
               r.body[i].prefix /\ ValidBytes(r.body[i].data)
       ELSE ValidBody(r.body)

\* C13 as stated: a record is appended when the status is 2xx and the body
\* is parsable, none when the status is not 2xx or the body is empty.
C13_AsStated ==
    Completed =>
        LET r == lastCall.resp
            is2xx == r.status >= 200 /\ r.status <= 299
        IN  /\ (is2xx /\ ParsableBody(r)) => lastCall.kind # "none"
            /\ (~is2xx \/ Len(r.body) = 0) => lastCall.kind = "none"

\* C13 amended: for a completed upstream response wrapHandler calls
\* addMetrics exactly when the status is 200 and the body is parsable (a
\* record of unknown values when usage and timings are both absent), and a
\* wrapHandler call that returns has appended exactly one record in the
\* first case and none otherwise (status other than 200, other 2xx
\* included, empty body, or no valid JSON).
C13_RecordsOn200 ==
    /\ Completed =>
          LET r == lastCall.resp
          IN  /\ lastCall.kind # "none" <=>
                    (r.status = StatusOK /\ ParsableBody(r))
              /\ lastCall.kind = "unknown" =>
                    \A i \in DOMAIN r.body :
                        (r.sse => r.body[i].prefix)
                            => ~usageOrTimingsExists(r.body[i].data)
              /\ wh[lastCall.t].pc =
                    (IF lastCall.kind = "none" THEN "wh_return" ELSE "am_lock")
    /\ lastCall.returned =>
          lastCall.added = (IF lastCall.kind = "none" THEN 0 ELSE 1)
    /\ Len(inserted) = nextID - Cardinality({t \in ReqThreads :
                                    wh[t].pc = "am_append"})

\* C13 witness: a response without usage or timings was recorded: the call
\* returned after appending one record of unknown values
C13_Witness ==
    /\ lastCall.returned
    /\ lastCall.kind = "unknown"
    /\ lastCall.added = 1
    /\ Len(metrics) > 0
    /\ metrics[Len(metrics)].kind = "unknown"

\* request t of a swapping group has idled the siblings and is making its
\* target ready (from the start of makeReady until the request is counted)
MakingReady(t) ==
    /\ th[t].lock = "pg"
    /\ th[t].p = th[t].tgt
    /\ th[t].pc # "pg_idle"

\* Process s is idle: Stopped, or Asleep (only with sleep configured), and
\* no request for it is in flight
IsIdle(s) ==
    /\ state[s] \in {StateStopped, StateAsleep}
    /\ state[s] = StateAsleep => isSleepEnabled(s)
    /\ inflight[s] = 0

\* C14 as stated: in a swap group, a Sleep() that the sibling loop performed
\* on a member with sleep configured (one that was not already idle) leaves
\* that member Asleep.
C14_AsStated ==
    [][\A t \in ReqThreads :
        (/\ th[t].lock = "pg" /\ th[t].p # th[t].tgt
         /\ lastRet'.t = t
         /\ isSleepEnabled(th[t].p)
         /\ lastRet'.res # "sleep_invalid")
        => state'[th[t].p] = StateAsleep]_vars

\* C14 amended: in a swap group, from the moment makeReady of the named
\* member T begins until T's request is counted (so also when T reaches
\* Ready), every other member is idle: Asleep, which only a member with
\* sleep configured can be, or Stopped, with no request in flight.
C14_SiblingsIdleFirst ==
    \A t \in ReqThreads :
        MakingReady(t) =>
            \A s \in Members[groupOf(th[t].tgt)] \ {th[t].tgt} : IsIdle(s)

\* C14 witness: a request for m2 has put its Ready sibling m1 to sleep and
\* brought m2 to Ready
C14_Witness ==
    \E t \in ReqThreads :
        /\ MakingReady(t)
        /\ th[t].tgt = "m2" /\ th[t].pc = "pr_inc"
        /\ state["m2"] = StateReady
        /\ state["m1"] = StateAsleep /\ child["m1"] = "alive"

\* the request of goroutine t is being forwarded to the upstream of the
\* model it named, which is Ready with its child alive, while every other
\* member of the group is idle
ForwardedToNamed(t) ==
    /\ th[t].p = th[t].tgt
    /\ state[th[t].p] = StateReady
    /\ child[th[t].p] = "alive"
    /\ \A s \in Members[groupOf(th[t].tgt)] \ {th[t].tgt} :
          state[s] \in {StateStopped, StateAsleep}

\* the call that just returned was the request of goroutine t itself
RequestReturned(t) == lastRet.t = t /\ th[t].pc = "idle"

\* C15: with concurrent requests for different members of a swap group and
\* upstreams that work, a request is only ever forwarded to the upstream of
\* the model it named while the other members are idle, no request returns
\* an error, and every request that has arrived eventually returns served.
C15_AllServed ==
    /\ [](\A t \in ReqThreads :
            /\ th[t].pc = "pr_fwd" => ForwardedToNamed(t)
            /\ RequestReturned(t) => lastRet.res = "served")
    /\ \A t \in ReqThreads :
          (th[t].pc = "pm_lock") ~>
              (RequestReturned(t) /\ lastRet.res = "served")

\* C15 witness: a request for m2 has been served while a request for its
\* sibling m1, which arrived in the meantime, is waiting for its turn
C15_Witness ==
    \E t, u \in ReqThreads :
        /\ RequestReturned(t) /\ lastRet.res = "served" /\ lastRet.p = "m2"
        /\ th[u].tgt = "m1" /\ th[u].pc \in {"pm_lock", "pg_lock"}
        /\ state["m2"] = StateReady

\* the members of the group of model m other than m
OtherMembers(m) == Members[groupOf(m)] \ {m}

\* C16: in a group with swap = false, a request naming one member never
\* operates on another member, and no step of it changes the state or the
\* child of another member; a member whose request was served is Ready and
\* stays Ready while requests for the other members are handled, so after
\* one served request for each member all members are Ready together.
C16_NoSwapFrame ==
    [][\A t \in ReqThreads :
        LET m == th[t].tgt
        IN  /\ (m # "none" /\ ~cfg[groupOf(m)].swap) =>
                  /\ th[t].p \notin OtherMembers(m)
                  /\ th'[t] # th[t] =>
                        \A s \in OtherMembers(m) :
                            state'[s] = state[s] /\ child'[s] = child[s]
            /\ (lastRet'.t = t /\ lastRet'.res = "served")
                  => state'[lastRet'.p] = StateReady
            /\ \A s \in Members["G1"] :
                  state[s] = StateReady => state'[s] = StateReady]_vars

\* C16 witness: the request for m2 has just been served after one for m1,
\* and both members are Ready with their children alive
C16_Witness ==
    /\ ~cfg["G1"].swap
    /\ lastRet.res = "served" /\ lastRet.p = "m2"
    /\ state["m1"] = StateReady /\ state["m2"] = StateReady
    /\ child["m1"] = "alive" /\ child["m2"] = "alive"
    /\ idle["m1"] = 0 /\ inflight["m1"] = 0

\* goroutine t returns from MakeIdleProcesses() in this step
IdleReturns(t) == th[t].pc = "mi_loop" /\ th'[t].pc = "idle"

Idles(t, m) ==
    /\ th[t].pc \in {"pm_idle", "pg_idle"}
    /\ th'[t].p = m
    /\ th'[t].pc = MakeIdle(m)

\* C18 as stated: a request that activates a group with exclusive = false
\* never idles a Ready member of another group, and a Ready member of a group
\* with exclusive = false is never idled by a request that activates another
\* group.
C18_AsStated ==
    [][\A t \in ReqThreads, m \in Procs :
        (Idles(t, m) /\ state[m] = StateReady
                     /\ groupOf(m) # groupOf(th[t].tgt)) =>
            /\ cfg[groupOf(th[t].tgt)].exclusive
            /\ cfg[groupOf(m)].exclusive]_vars

\* C18 amended: a request idles a member of a group other than the one it
\* activates only when the activated group has exclusive = true and the
\* member's group has persistent = false; the member's group's own exclusive
\* flag plays no part.
C18_ExclusiveFrame ==
    [][\A t \in ReqThreads, m \in Procs :
        (Idles(t, m) /\ groupOf(m) # groupOf(th[t].tgt)) =>
            /\ th[t].pc = "pm_idle"
            /\ cfg[groupOf(th[t].tgt)].exclusive
            /\ ~cfg[groupOf(m)].persistent]_vars

\* C18 witness: a request for a member of the exclusive group G1 has stopped
\* the Ready member m3 of G2, a group with exclusive = false
C18_Witness ==
    \E t \in ReqThreads :
        /\ th[t].lock = "pm" /\ th[t].p = "m3"
        /\ th[t].tgt \in Members["G1"]
        /\ ~cfg["G2"].exclusive
        /\ lastRet.t = t /\ lastRet.res = "stopped"
        /\ state["m3"] = StateStopped

\* goroutine t takes the step at pc, the state check of a call, on a Process
\* in state s
ChecksIn(t, pc, s) ==
    th[t].pc = pc /\ state[th[t].p] = s /\ th'[t].pc # pc

\* goroutine t returns res in this step and no Process changes state or child
ReturnsUnchanged(t, res) ==
    /\ lastRet'.t = t /\ lastRet'.res \in res
    /\ state' = state /\ child' = child

\* C19 as stated: Sleep() on an Asleep Process, Wake() on a Ready Process and
\* Stop() on a Stopped Process each return success at their state check,
\* without changing the state and without killing or spawning a child.
C19_AsStated ==
    [][\A t \in Threads :
        /\ ChecksIn(t, "sl_check", StateAsleep) =>
              ReturnsUnchanged(t, {"sleep_ok"})
        /\ ChecksIn(t, "si_swap", StateStopped) =>
              ReturnsUnchanged(t, {"stop_noop"})
        /\ ChecksIn(t, "wk_check", StateReady) =>
              /\ state' = state /\ child' = child
              /\ lastRet'.t = t => lastRet'.res \notin {"err_wake"}]_vars

\* goroutine t takes the first step of StopImmediately() on Process p
StopsImmediately(t, p) ==
    th[t].pc = "si_swap" /\ th[t].p = p /\ th'[t].pc # "si_swap"

\* C20 as stated: StopImmediately() on a Process in any state other than
\* Shutdown goes toward Stopping without passing through another state (a
\* Process already Stopped or Stopping stays so), the child is killed, and the
\* Process eventually is Stopped with no child.
C20_AsStated ==
    /\ [][\A t \in AdminThreads, p \in SoloProcs :
            (StopsImmediately(t, p) /\ state[p] # StateShutdown) =>
                /\ state'[p] \in {StateStopping, StateStopped}
                /\ state'[p] # state[p] => th'[t].pc = "sc_kill"]_vars
    /\ \A t \in AdminThreads, p \in SoloProcs :
          (th[t].pc = "si_swap" /\ th[t].p = p /\ state[p] # StateShutdown)
              ~> (state[p] = StateStopped /\ child[p] = "none")

\* a Stop() on Process p has begun and has not yet swapped to Stopping
StopBegun(p) ==
    \E t \in AdminThreads :
        th[t].p = p /\ th[t].pc \in {"sp_inflight", "si_swap"}

\* C21 as stated: Stop() kills the child only while no request is in flight,
\* and a request that arrives after a Stop() began is not passed on toward
\* the upstream.
C21_AsStated ==
    [][/\ \A t \in AdminThreads :
            (/\ th[t].pc = "sc_kill" /\ th[t].ret = "return"
             /\ th'[t].pc = "sc_wait" /\ child[th[t].p] = "alive")
            => inflight[th[t].p] = 0
       /\ \A u \in ReqThreads :
            (/\ th[u].pc = "pr_entry" /\ StopBegun(th[u].p)
             /\ th'[u].pc # "pr_entry")
            => th'[u].pc # "pr_inc"]_vars

\* the states of a sleep/wake cycle between its two Ready ends
CycleStates == {StateSleepPending, StateAsleep, StateWaking}

\* the four transitions of a successful sleep/wake cycle
CycleEdges ==
    {<<StateReady, StateSleepPending>>, <<StateSleepPending, StateAsleep>>,
     <<StateAsleep, StateWaking>>, <<StateWaking, StateReady>>}

\* a goroutine starts a child for p in this step
Spawns(p) ==
    \E t \in Threads :
        th[t].p = p /\ th[t].pc = "st_spawn" /\ th'[t].pc = "st_health"

\* goroutine t, in stopCommand(), kills the live child of p in this step
Kills(t, p) ==
    /\ th[t].p = p /\ th[t].pc = "sc_kill" /\ th'[t].pc = "sc_wait"
    /\ child[p] = "alive"

\* goroutine t is in the health check failure path of wake() on p
WakeFailing(t, p) ==
    th[t].p = p /\ (th[t].ret = "wk_hfail" \/ th[t].pc = "wk_hfail")

\* C22 as stated: across a successful Ready -> SleepPending -> Asleep ->
\* Waking -> Ready cycle the Process keeps the same child.  Step by step:
\* each of the four transitions leaves the child as it is; no child is
\* spawned while the Process is in the cycle; and a child is killed inside
\* the cycle only by the wake() whose health check failed, after which that
\* wake() never completes the cycle with Waking -> Ready.
C22_AsStated ==
    [][\A p \in Procs :
        /\ <<state[p], state'[p]>> \in CycleEdges =>
              child'[p] = child[p] /\ stale'[p] = stale[p]
        /\ (state[p] \in CycleStates \/ state'[p] \in CycleStates) =>
              ~Spawns(p)
        /\ \A t \in Threads :
              (state[p] \in CycleStates /\ Kills(t, p)) =>
                  state[p] = StateWaking /\ WakeFailing(t, p)
        /\ <<state[p], state'[p]>> = <<StateWaking, StateReady>> =>
              \A t \in Threads : ~WakeFailing(t, p)]_vars

\* C28 as stated: of the requests that found a Process Stopped, the one whose
\* swapState(Stopped, Starting) is accepted spawns the child; every other one
\* waits on the start gate while the state is Starting, and goes on to serve
\* its request when the start it lost to has reached Ready; a child is
\* spawned only when the Process has none.
C28_AsStated ==
    [][\A t \in ReqThreads :
        LET p == th[t].p
        IN  /\ (th[t].pc = "st_swap" /\ th'[t].pc # "st_swap") =>
                  /\ state[p] = StateStopped => th'[t].pc = "st_spawn"
                  /\ state[p] = StateStarting => th'[t].pc = "st_wait"
                  /\ state[p] = StateReady => th'[t].pc = "pr_inc"
            /\ (th[t].pc = "st_wait" /\ th'[t].pc # "st_wait") =>
                  (state[p] = StateReady <=> th'[t].pc = "pr_inc")
            /\ (th[t].pc = "st_spawn" /\ th'[t].pc = "st_health") =>
                  child[p] = "none"]_vars

\* the goroutines on p that are at one of pcs, or in the stopCommand() call
\* that returns to one of rets
TasksAt(p, pcs, rets) ==
    {t \in Threads :
        /\ th[t].p = p
        /\ \/ th[t].pc \in pcs
           \/ th[t].pc \in {"sc_kill", "sc_wait"} /\ th[t].ret \in rets}

\* the goroutines performing a Start, a Sleep, a Wake or a Stop of p: past
\* the accepted swap into the transitional state, not yet returned
StartTasks(p) ==
    TasksAt(p, {"st_spawn", "st_health", "st_ready", "st_timeout"},
            {"st_timeout"})
SleepTasks(p) ==
    TasksAt(p, {"sl_cmd", "sl_ok", "sl_fail", "sl_failed"}, {"sl_failed"})
WakeTasks(p) ==
    TasksAt(p, {"wk_cmd", "wk_health", "wk_ready", "wk_hfail"}, {"wk_hfail"})
StopTasks(p) == TasksAt(p, {}, {"return"})

\* C29 as stated: for each Process at most one Start, one Sleep, one Wake
\* and one Stop is being performed at any instant.
C29_AsStated ==
    \A p \in Procs :
        /\ Cardinality(StartTasks(p)) <= 1
        /\ Cardinality(SleepTasks(p)) <= 1
        /\ Cardinality(WakeTasks(p)) <= 1
        /\ Cardinality(StopTasks(p)) <= 1

\* the goroutines performing any transition of p
TransitionTasks(p) ==
    StartTasks(p) \cup SleepTasks(p) \cup WakeTasks(p) \cup StopTasks(p)

\* goroutine t takes its step at pc on a Process in state s and goes to pc2
StepsTo(t, pc, s, pc2) ==
    (th[t].pc = pc /\ state[th[t].p] = s /\ th'[t].pc # pc) => th'[t].pc = pc2

\* C30 as stated: for each Process at most one goroutine is performing a
\* Start, Sleep, Wake or Stop at any time, and a caller that finds the
\* transition it wants in progress waits on that transition's gate.
C30_AsStated ==
    [][/\ \A p \in Procs : Cardinality(TransitionTasks(p))' <= 1
       /\ \A t \in Threads :
            /\ StepsTo(t, "st_swap", StateStarting, "st_wait")
            /\ StepsTo(t, "wk_check", StateWaking, "wk_wait")
            /\ isSleepEnabled(th[t].p) =>
                  StepsTo(t, "sl_check", StateSleepPending, "sl_wait")]_vars

\* C23: a Process with ttl = 0 never has a TTL monitor, and it leaves Ready
\* only in a step of a goroutine that was called on it (a request, Sleep())
\* or when its child has exited; the passing of time changes no state.
C23_NoMonitor ==
    [][\A p \in Procs :
        cfg[p].ttl = 0 =>
            /\ \A m \in MonThreads : th'[m].pc # "off" => th'[m].p # p
            /\ idle'[p] > idle[p] => state' = state
            /\ (state[p] = StateReady /\ state'[p] # StateReady) =>
                  \/ child[p] = "exited"
                  \/ \E t \in ReqThreads \cup AdminThreads :
                        th[t].p = p /\ th'[t] # th[t]]_vars

\* C23 witness: a Process with ttl = 0 is Ready and has been idle for longer
\* than any TTL, with no request or call in progress
C23_Witness ==
    \E p \in SoloProcs :
        /\ cfg[p].ttl = 0
        /\ state[p] = StateReady
        /\ idle[p] > MaxTTL
        /\ \A t \in Threads : th[t].pc \in {"idle", "off"}

\* s is a state of the ring: at most maxMetrics records, and they are the
\* last records appended so far, hence with strictly increasing IDs
RingState(s) ==
    /\ Len(s) <= maxMetrics
    /\ \A i, j \in DOMAIN s : i < j => s[i].ID < s[j].ID
    /\ \E n \in 0..Len(inserted) :
          LET k == IF n < maxMetrics THEN n ELSE maxMetrics
          IN  s = SubSeq(inserted, n - k + 1, n)

\* C24: the slice a getMetrics() call is about to return is a state of the
\* ring, and it is the ring as stored while the call holds the read lock, so
\* never one with an append not yet cut down to capacity; when no call is in
\* progress the ring holds min(maxMetrics, number of appends) records.
C24_Snapshots ==
    /\ \A t \in ReqThreads :
          wh[t].pc = "gm_unlock" =>
              RingState(wh[t].result) /\ wh[t].result = metrics
    /\ (\A t \in ReqThreads : wh[t].pc = "idle") =>
          LET n == Len(inserted)
          IN  Len(metrics) = (IF n < maxMetrics THEN n ELSE maxMetrics)

\* C24 witness: a reader is about to return a full ring from which an older
\* record was evicted, while a writer waits for the lock
C24_Witness ==
    \E t, u \in ReqThreads :
        /\ wh[t].pc = "gm_unlock" /\ wh[u].pc = "am_lock"
        /\ maxMetrics > 0
        /\ Len(wh[t].result) = maxMetrics
        /\ wh[t].result[1].ID > 0

\* the records stored in the monitor are, unmodified, the last appended ones
StoredAsInserted ==
    LET n == Len(inserted)
        k == Len(metrics)
    IN  k <= n /\ metrics = SubSeq(inserted, n - k + 1, n)

\* C25: a caller that changes the slice getMetrics() returned, an element or
\* the length, changes nothing in the monitor; the stored records stay the
\* records that were inserted, and another caller's getMetrics() result is
\* not affected by the change.
C25_ReturnsCopy ==
    [][/\ \A t \in ReqThreads :
             (wh[t].pc = "gm_returned" /\ wh'[t].result # wh[t].result) =>
                 /\ metrics' = metrics
                 /\ \A u \in ReqThreads \ {t} : wh'[u] = wh[u]
       /\ StoredAsInserted'
       /\ \A t \in ReqThreads :
             (wh[t].pc = "gm_unlock" /\ wh'[t].pc = "gm_returned") =>
                 \A i \in DOMAIN wh[t].result :
                     wh[t].result[i].kind # "modified"]_vars

\* C25 witness: a caller has modified a record of its slice and cut the slice
\* short while the monitor stores records and another caller reads them
C25_Witness ==
    \E t, u \in ReqThreads :
        /\ wh[t].pc = "gm_returned" /\ wh[u].pc = "gm_unlock"
        /\ wh[t].result # <<>>
        /\ wh[t].result[1].kind = "modified"
        /\ Len(wh[t].result) < Len(metrics)
        /\ wh[u].result = metrics

\* the wrapHandler() call in progress was given a failing next()
Failed == lastCall.t # <<>> /\ ~lastCall.returned /\ lastCall.resp.err # ErrNone

\* C26: when next() fails wrapHandler() parses nothing, goes straight to its
\* return and returns next()'s very error, having appended no record; when
\* next() succeeds it returns nil, whatever the status and the body are and
\* whether or not a record was appended.
C26_ErrorsOfNextOnly ==
    [][/\ Failed' =>
             /\ lastCall'.kind = "none"
             /\ wh'[lastCall'.t].pc = "wh_return"
             /\ wh'[lastCall'.t].err = lastCall'.resp.err
       /\ Completed' => wh'[lastCall'.t].err = ErrNone
       /\ \A t \in ReqThreads :
             (wh[t].pc # "idle" /\ wh'[t].pc # "idle") => wh'[t].err = wh[t].err
       /\ lastCall'.returned =>
             /\ lastCall'.err = wh[lastCall'.t].err
             /\ lastCall'.err # ErrNone =>
                   /\ lastCall'.added = 0
                   /\ lastCall' # lastCall => (metrics' = metrics /\ nextID' = nextID)]_vars

\* C26 witness: a call whose next() failed on a 200 response with a body is
\* about to return that error, the ring being empty
C26_Witness ==
    /\ Failed
    /\ lastCall.resp.err = "next_error_2"
    /\ wh[lastCall.t].err = "next_error_2"
    /\ wh[lastCall.t].pc = "wh_return"
    /\ lastCall.resp.status = StatusOK
    /\ Len(lastCall.resp.body) > 0
    /\ metrics = <<>>

\* a call given a response that yields no record has returned nil
C26_WitnessSuppressed ==
    /\ lastCall.returned
    /\ lastCall.kind = "none"
    /\ lastCall.err = ErrNone

\* the recorder of the handler that writes
copier == wh[<<"req", 1>>].copier

WakeSwapsIn(t, s) == ChecksIn(t, "wk_swap", s)

\* the swapState call just made was swapState(from, StateWaking) on p, accepted
SwappedToWaking(p, from) ==
    /\ lastSwap'.kind = "swap" /\ lastSwap'.p = p
    /\ lastSwap'.from = from /\ lastSwap'.to = StateWaking
    /\ Accepted(lastSwap')
    /\ state[p] = from /\ state'[p] = StateWaking

\* C31 as stated: wake() swaps Asleep -> Waking on an Asleep Process and SleepPending
\* -> Waking on a Process that Sleep() is putting to sleep, and goes on to the
\* wake requests; a Process enters Waking from no other state and by no other
\* step; wake() finding the Process Stopped, Starting, Stopping or Shutdown,
\* at its state check or at its swap, returns an error and changes no state.
C31_AsStated ==
    [][/\ \A t \in Threads :
            LET p == th[t].p
            IN  /\ \A s \in {StateAsleep, StateSleepPending} :
                      WakeSwapsIn(t, s) =>
                          SwappedToWaking(p, s) /\ th'[t].pc = "wk_cmd"
                /\ \A s \in {StateStopped, StateStarting, StateStopping,
                             StateShutdown} :
                      /\ ChecksIn(t, "wk_check", s) =>
                            ReturnsUnchanged(t, {"err_wake"})
                      /\ WakeSwapsIn(t, s) =>
                            /\ ReturnsUnchanged(t, {"err_wake"})
                            /\ Rejected(lastSwap')
       /\ \A p \in Procs :
            (state'[p] = StateWaking /\ state[p] # StateWaking) =>
                /\ state[p] \in {StateAsleep, StateSleepPending}
                /\ \E t \in Threads : th[t].p = p /\ WakeSwapsIn(t, state[p])]_vars

\* C32 as stated: a Process leaves Ready for SleepPending only with its
\* in-flight counter at zero, and no request is being forwarded to the
\* upstream while the Process is SleepPending or Asleep.
C32_AsStated ==
    [][\A p \in Procs :
        /\ (state[p] = StateReady /\ state'[p] = StateSleepPending) =>
              inflight[p] = 0
        /\ state'[p] \in {StateSleepPending, StateAsleep} =>
              Forwarding(p)' = {}]_vars

\* the TTL monitor goroutines of Process p that are alive
MonitorTasks(p) == {m \in MonThreads : th[m].pc # "off" /\ th[m].p = p}

\* C33 as stated: a Process with ttl > 0 never has more than one TTL monitor
\* goroutine alive, and has exactly one while it is Ready.
C33_AsStated ==
    \A p \in SoloProcs :
        cfg[p].ttl > 0 =>
            /\ Cardinality(MonitorTasks(p)) <= 1
            /\ state[p] = StateReady => Cardinality(MonitorTasks(p)) = 1

\* goroutine t, which was performing a Start of p, ends it in this step
EndsStart(t, p) == t \in StartTasks(p) /\ t \notin StartTasks(p)'

TimedOut(t) == th[t].pc \in {"sc_kill", "sc_wait"} /\ th[t].ret = "st_timeout"

Reaped(p) == child[p] = "exited" /\ child'[p] = "none"

ConfigsGate == [sleep : {TRUE}, ttl : {0}, limit : {0}]

InitGate ==
    /\ InitProcess(Procs)
    /\ cfg \in SoloConfigs(ConfigsGate)
    /\ InitMetrics({MaxMetrics})
    /\ lastSwap = NoSwap
    /\ lastRet = NoRet
    /\ th = [t \in Threads |->
                IF t \in MonThreads THEN OffRec("m1") ELSE IdleRec("m1")]

\* Sleep() is called on p while other calls on p may be running
CallConcurrentSleep(t, p) ==
    /\ t \in ReqThreads /\ At(t, "idle")
    /\ Move([th EXCEPT ![t] =
            [IdleRec(p) EXCEPT !.pc = "sl_check", !.ret = "return"]])
    /\ NoSwapCall
    /\ UNCHANGED <<state, child, stale, inflight, sem, waitStarting,
                   waitSleeping, waitWaking, idle, sleepLog, cfg>>

\* a request for p arrives from one more client
CallOtherProxyRequest(t, p) ==
    /\ t \in AdminThreads /\ At(t, "idle")
    /\ Move([th EXCEPT ![t] =
            [IdleRec(p) EXCEPT !.pc = "pr_entry"]])
    /\ NoSwapCall
    /\ UNCHANGED <<state, child, stale, inflight, sem, waitStarting,
                   waitSleeping, waitWaking, idle, sleepLog, cfg>>

\* the steps of ProxyRequest() and Sleep(), and of the start(), wake() and
\* stopCommand() they call
StepCall(t) ==
    \/ ProxyRequest_entry(t) \/ ProxyRequest_inc(t) \/ ProxyRequest_sem(t)
    \/ ProxyRequest_done(t)
    \/ start_swap(t) \/ start_spawn(t) \/ start_health(t)
    \/ start_timeout(t) \/ start_ready(t)
    \/ wake_check(t) \/ wake_swap(t) \/ wake_cmd(t)
    \/ wake_health(t) \/ wake_hfail(t) \/ wake_ready(t)
    \/ Sleep_check(t) \/ Sleep_inflight(t) \/ Sleep_swap(t)
    \/ Sleep_cmd(t) \/ Sleep_ok(t) \/ Sleep_fail(t) \/ Sleep_failed(t)
    \/ stopCommand_kill(t) \/ stopCommand_wait(t)

\* the steps of a call that finds another one holding a gate
StepWait(t) == start_wait(t) \/ wake_wait(t) \/ Sleep_wait(t)

NextGate ==
    \/ \E t \in ReqThreads, p \in SoloProcs : CallProxyRequest(t, p)
    \/ \E t \in Threads, p \in SoloProcs : CallConcurrentSleep(t, p)
    \/ \E t \in Threads, p \in SoloProcs : CallOtherProxyRequest(t, p)
    \/ \E t \in Threads : StepCall(t)
    \/ \E t \in Threads : StepWait(t)
    \/ \E p \in Procs : ChildExit(p)
    \/ \E p \in Procs : waitForCmd(p)

SpecGateFair ==
    /\ InitGate /\ [][NextGate]_vars
    /\ \A t \in ReqThreads \cup AdminThreads :
          SF_vars(StepCall(t) \/ StepWait(t))
    /\ \A p \in Procs : WF_vars(waitForCmd(p))

GateWaits == {"st_wait", "wk_wait", "sl_wait"}

\* the states a gate is held in
Transitional == {StateStarting, StateSleepPending, StateWaking}

\* the caller t leaves the gate it was blocked on
Released(t) == th[t].pc \in GateWaits /\ th'[t].pc # th[t].pc

\* C36 as stated: every caller blocked on a start, sleep or wake gate is eventually
\* released, whether the transition holding the gate succeeded or failed;
\* the released caller acts on the state it then observes: a Sleep waiter
\* succeeds iff the state is Asleep, a Start or Wake waiter goes on with its
\* request iff the state is Ready; no Process stays forever in Starting,
\* SleepPending or Waking.
C36_AsStated ==
    /\ \A t \in ReqThreads \cup AdminThreads :
          (th[t].pc \in GateWaits) ~> (th[t].pc \notin GateWaits)
    /\ [][\A t \in ReqThreads \cup AdminThreads :
            Released(t) =>
               LET p == th[t].p
               IN  IF th[t].pc = "sl_wait"
                   THEN lastRet' = RetRecord(t, IF state[p] = StateAsleep
                                                THEN "sleep_ok" ELSE "err_sleep")
                   ELSE IF state[p] = StateReady
                   THEN th'[t].pc = "pr_inc" /\ lastRet' = NoRet
                   ELSE lastRet'.t = t
                        /\ lastRet'.res \in {"err_start", "err_wake"}]_vars
    /\ \A p \in SoloProcs :
          (state[p] \in Transitional) ~> (state[p] \notin Transitional)

\* the steps of start() and wake()
StartWakeSteps ==
    {"st_swap", "st_wait", "st_spawn", "st_health", "st_timeout", "st_ready",
     "wk_check", "wk_swap", "wk_wait", "wk_cmd", "wk_health", "wk_hfail",
     "wk_ready"}

\* goroutine t holds the ProxyManager mutex
HoldsScheduler(t) == th[t].lock = "pm"

\* the holder of the ProxyManager mutex is neither forwarding its request
\* nor starting or waking a child
SchedulerLockShort ==
    \A t \in Threads :
       HoldsScheduler(t) => th[t].pc \notin {"pr_sem", "pr_fwd"} \cup StartWakeSteps

\* request u waits for the ProxyManager mutex while its holder t waits for
\* the requests that are being forwarded to a Process of another group
WaitsForStreaming(u, t) ==
    /\ th[u].pc = "pm_lock"
    /\ state[th[u].tgt] = StateReady
    /\ HoldsScheduler(t)
    /\ th[t].pc \in {"sp_inflight", "sl_inflight"}
    /\ inflight[th[t].p] > 0
    /\ th[t].p \notin Members[groupOf(th[u].tgt)]

\* C37 as stated: the scheduler lock is not held while a request is
\* forwarded or a child is starting or waking, and a request for a model
\* that is Ready in an activated group does not wait for another request's
\* start, wake or streaming to finish.
C37_AsStated ==
    /\ SchedulerLockShort
    /\ \A u \in ReqThreads : \A t \in Threads \ {u} : ~WaitsForStreaming(u, t)

\* ------------------------------------------------------------ SpecSched
\* requests for m1 of the exclusive group G1, which does not swap, while
\* another client keeps sending requests for m3 of group G2, which is not
\* exclusive and which G1 displaces; m3 may have sleep endpoints
SchedConfigs ==
    {pc @@ gc :
        pc \in {f \in [Procs -> [sleep : BOOLEAN, ttl : {0}, limit : {0}]] :
                    ~f["m1"].sleep /\ ~f["m2"].sleep},
        gc \in {[G1 |-> [swap |-> FALSE, exclusive |-> TRUE,
                         persistent |-> FALSE],
                 G2 |-> [swap |-> FALSE, exclusive |-> FALSE,
                         persistent |-> FALSE],
                 G3 |-> DefaultGroup]}}

InitSched ==
    /\ InitProcess(Procs)
    /\ cfg \in SchedConfigs
    /\ InitMetrics({MaxMetrics})
    /\ lastSwap = NoSwap
    /\ lastRet = NoRet
    /\ th = [t \in Threads |->
                IF t \in MonThreads THEN OffRec("m1") ELSE IdleRec("m1")]

\* a request naming model m arrives from the client of the other group
CallOtherRequest(t, m) ==
    /\ t \in AdminThreads /\ At(t, "idle")
    /\ Move([th EXCEPT ![t] =
            [IdleRec(m) EXCEPT !.pc = "pm_lock", !.tgt = m]])
    /\ NoSwapCall
    /\ UNCHANGED <<state, child, stale, inflight, sem, waitStarting,
                   waitSleeping, waitWaking, idle, sleepLog, cfg>>

NextSched ==
    \/ \E t \in ReqThreads : CallRoutedRequest(t, "m1")
    \/ \E t \in AdminThreads : CallOtherRequest(t, "m3")
    \/ \E t \in Threads : swapProcessGroup_lock(t) \/ MakeIdle_next(t)
    \/ \E t \in Threads : swapProcessGroup_unlock(t) \/ ProcessGroup_lock(t)
    \/ \E t \in Threads : StepAlone(t)
    \/ \E t \in Threads : start_wait(t)
    \/ \E p \in Procs : waitForCmd(p)

SpecSched == InitSched /\ [][NextSched]_vars

\* ------------------------------------------------------------ SpecScan
\* processStreamingResponse() on the bytes of a streamed body.  A body is a
\* sequence of bytes; "data:", "[DONE]" and a JSON value each count as one
\* byte, "x" is text that is not JSON
ScanBytes == {"\n", " ", "data:", "[DONE]", "x", "json_usage", "json_plain"}

ScanBodies == UNION {[1..n -> ScanBytes] : n \in 0..MaxScan}

\* body[a:b]
Slice(body, a, b) == SubSeq(body, a + 1, b)

\* bytes.LastIndexByte(s, c): 0-based, -1 when c is not in s
LastIndexByte(s, c) ==
    IF \E i \in 1..Len(s) : s[i] = c
    THEN (CHOOSE i \in 1..Len(s) :
             s[i] = c /\ \A j \in (i + 1)..Len(s) : s[j] # c) - 1
    ELSE -1

\* bytes.TrimSpace(s)
TrimSpace(s) ==
    LET kept == {i \in 1..Len(s) : s[i] \notin {" ", "\n"}}
    IN  IF kept = {} THEN <<>>
        ELSE SubSeq(s, CHOOSE i \in kept : \A j \in kept : i <= j,
                       CHOOSE i \in kept : \A j \in kept : j <= i)

\* bytes.HasPrefix(line, "data:")
HasPrefix(line) == Len(line) > 0 /\ line[1] = "data:"

\* bytes.TrimSpace(line[len(prefix):])
dataOf(line) == TrimSpace(Tail(line))

\* gjson.ValidBytes(data) for the bytes after the prefix
ValidData(data) == Len(data) = 1 /\ ValidBytes(data[1])

prevLineEndSkipping(lineStart) == lineStart - 2

\* pos = lineStart - 1: the position before the newline
prevLineEnd(lineStart) == lineStart - 1

\* the loop of processStreamingResponse() from position pos down; at is
\* where the line starts whose usage and timings are parsed
RECURSIVE scanBytes(_, _, _)
scanBytes(body, pos, foundValidJSON) ==
    IF pos <= 0
    THEN [kind |-> IF foundValidJSON THEN parseMetrics(FALSE) ELSE "error",
          at |-> -1]
    ELSE LET idx == LastIndexByte(Slice(body, 0, pos), "\n")
             lineStart == IF idx = -1 THEN 0 ELSE idx + 1
             line == TrimSpace(Slice(body, lineStart, pos))
             next == prevLineEnd(lineStart)
             data == IF HasPrefix(line) THEN dataOf(line) ELSE <<>>
         IN  IF Len(line) = 0 \/ ~HasPrefix(line) \/ Len(data) = 0
                \/ data = <<"[DONE]">>
             THEN scanBytes(body, next, foundValidJSON)
             ELSE IF ValidData(data)
             THEN IF usageOrTimingsExists(data[1])
                  THEN [kind |-> parseMetrics(TRUE), at |-> lineStart]
                  ELSE scanBytes(body, next, TRUE)
             ELSE scanBytes(body, next, foundValidJSON)

\* next() has returned with body in the recorder's buffer
bodyRecorded(t) ==
    /\ wh[t].pc = "idle"
    /\ \E body \in ScanBodies :
          wh' = [wh EXCEPT ![t].pc = "scan", ![t].copier.body = body]
    /\ NoCallReturn
    /\ UNCHANGED <<metrics, nextID, maxMetrics, mu, inserted>>
    /\ UNCHANGED pvars

\* processStreamingResponse(modelID, start, body)
scanRecorded(t) ==
    LET body == wh[t].copier.body
        r == scanBytes(body, Len(body), FALSE)
    IN  /\ wh[t].pc = "scan"
        /\ wh' = [wh EXCEPT ![t].pc = "scanned",
                            ![t].metric = [ID |-> 0, kind |-> r.kind,
                                           at |-> r.at]]
        /\ NoCallReturn
        /\ UNCHANGED <<metrics, nextID, maxMetrics, mu, inserted>>
        /\ UNCHANGED pvars

\* wrapHandler() returns
DropScanned(t) ==
    /\ wh[t].pc = "scanned"
    /\ wh' = [wh EXCEPT ![t] = WhIdle]
    /\ NoCallReturn
    /\ UNCHANGED <<metrics, nextID, maxMetrics, mu, inserted>>
    /\ UNCHANGED pvars

NextScan ==
    \/ bodyRecorded(<<"req", 1>>)
    \/ scanRecorded(<<"req", 1>>)
    \/ DropScanned(<<"req", 1>>)

InitScan ==
    /\ InitProcess(Procs)
    /\ cfg \in SoloConfigs({NoConfig})
    /\ InitMetrics({MaxMetrics})
    /\ lastSwap = NoSwap
    /\ lastRet = NoRet
    /\ th = [t \in Threads |->
                IF t \in MonThreads THEN OffRec("m1") ELSE IdleRec("m1")]

SpecScan == InitScan /\ [][NextScan]_vars

\* where the lines of body start, as a forward split at the newlines
LineStarts(body) == {0} \cup {i \in 1..Len(body) : body[i] = "\n"}

\* the line of body that starts at s, without the space around it
LineAt(body, s) ==
    LET ends == {e \in s..Len(body) : e = Len(body) \/ body[e + 1] = "\n"}
    IN  TrimSpace(Slice(body, s, CHOOSE e \in ends : \A f \in ends : e <= f))

\* a data line whose payload is valid JSON
HoldsJSON(line) == HasPrefix(line) /\ ValidData(dataOf(line))

\* a data line whose payload is valid JSON with usage or timings
HoldsUsage(line) == HoldsJSON(line) /\ usageOrTimingsExists(dataOf(line)[1])

\* what a forward pass over all the lines of body selects
ForwardPass(body) ==
    LET hits == {s \in LineStarts(body) : HoldsUsage(LineAt(body, s))}
    IN  IF hits # {}
        THEN [kind |-> "usage", at |-> CHOOSE s \in hits : \A u \in hits : u <= s]
        ELSE IF \E s \in LineStarts(body) : HoldsJSON(LineAt(body, s))
        THEN [kind |-> "unknown", at |-> -1]
        ELSE [kind |-> "error", at |-> -1]

\* C38: the backward scan of an SSE body selects the last line that starts
\* with data: whose payload is not [DONE], is valid JSON and contains usage
\* or timings, the line a forward pass over all lines picks last; with no
\* such line but a data line of valid JSON, one record of unknown values is
\* made; with no data line of valid JSON, or an empty body, nothing is
\* recorded; the scan ends for every body.
C38_BackwardScan ==
    \A t \in ReqThreads :
       wh[t].pc = "scanned" =>
          LET body == wh[t].copier.body
              got == wh[t].metric
          IN  /\ got.kind = ForwardPass(body).kind
              /\ got.at = ForwardPass(body).at
              /\ got.kind = "usage" =>
                    /\ HoldsUsage(LineAt(body, got.at))
                    /\ dataOf(LineAt(body, got.at)) # <<"[DONE]">>
                    /\ \A s \in LineStarts(body) :
                          s > got.at => ~HoldsUsage(LineAt(body, s))
              /\ got.kind = "unknown" =>
                    \E s \in LineStarts(body) : HoldsJSON(LineAt(body, s))
              /\ body = <<>> => got.kind = "error"

\* two data lines carry usage, a [DONE] line follows, and the scan has
\* selected the second
C38_Witness ==
    \E t \in ReqThreads :
       /\ wh[t].pc = "scanned"
       /\ wh[t].copier.body =
             <<"data:", "json_usage", "\n", "data:", "json_usage">>
       /\ wh[t].metric.at = 3

\* ------------------------------------------------------------ SpecParse
\* parseMetrics() on the usage and timings objects of a response.  A field
\* that is not in the JSON is Missing, one that is there is <<value>>; a
\* rate is the fraction num / den
Missing == <<>>

\* gjson.Result.Exists()
Exists(v) == v # Missing

\* gjson.Result.Get(key): a result that does not exist has no fields
Get(obj, key) == IF Exists(obj) THEN obj[1][key] ELSE Missing

\* gjson.Result.Int() and Float(): zero for a result that does not exist
Number(v) == IF Exists(v) THEN v[1] ELSE 0

Rate(num, den) == [num |-> num, den |-> den]

\* the usage objects a response is drawn from
Usages ==
    {Missing} \cup
    {<<u>> : u \in
    [prompt_tokens : {Missing, <<3>>}, input_tokens : {Missing, <<4>>},
     completion_tokens : {Missing, <<0>>, <<2>>}, output_tokens : {Missing, <<6>>},
     cache_read_input_tokens : {Missing, <<1>>}]}

\* the timings objects a response is drawn from
Timings ==
    {Missing} \cup
    {<<g>> : g \in
    [prompt_n : {Missing, <<5>>}, predicted_n : {Missing, <<0>>, <<7>>},
     prompt_per_second : {Missing, <<150>>}, predicted_per_second : {Missing, <<25>>},
     prompt_ms : {Missing, <<500>>}, predicted_ms : {Missing, <<0>>, <<1500>>},
     cache_n : {Missing, <<9>>}]}

\* time.Since(start) in milliseconds
Elapsed == {0, 2000}

\* inputTokens after the usage block
usageInputTokens(usage) ==
    IF Exists(Get(usage, "prompt_tokens"))
    THEN Number(Get(usage, "prompt_tokens"))
    ELSE IF Exists(Get(usage, "input_tokens"))
    THEN Number(Get(usage, "input_tokens"))
    ELSE 0

\* outputTokens after the usage block
usageOutputTokens(usage) ==
    IF Exists(Get(usage, "completion_tokens"))
    THEN Number(Get(usage, "completion_tokens"))
    ELSE IF Exists(Get(usage, "output_tokens"))
    THEN Number(Get(usage, "output_tokens"))
    ELSE 0

\* cachedTokens after the usage block
usageCachedTokens(usage) ==
    IF Exists(Get(usage, "cache_read_input_tokens"))
    THEN Number(Get(usage, "cache_read_input_tokens"))
    ELSE -1

\* tokensPerSecond == -1.0 && outputTokens > 0 && durationMs > 0
calculatedRate(tokensPerSecond, outputTokens, durationMs) ==
    IF tokensPerSecond = Rate(-1, 1) /\ outputTokens > 0 /\ durationMs > 0
    THEN Rate(outputTokens * 1000, durationMs)
    ELSE tokensPerSecond

\* parseMetrics(modelID, start, usage, timings), since = time.Since(start)
parseTokenMetrics(usage, timings, since) ==
    LET hasTimings == Exists(timings)
        inputTokens ==
            IF hasTimings THEN Number(Get(timings, "prompt_n"))
            ELSE usageInputTokens(usage)
        outputTokens ==
            IF hasTimings THEN Number(Get(timings, "predicted_n"))
            ELSE usageOutputTokens(usage)
        promptPerSecond ==
            IF hasTimings
            THEN Rate(Number(Get(timings, "prompt_per_second")), 1)
            ELSE Rate(-1, 1)
        tokensPerSecond ==
            IF hasTimings
            THEN Rate(Number(Get(timings, "predicted_per_second")), 1)
            ELSE Rate(-1, 1)
        durationMs ==
            IF hasTimings
            THEN Number(Get(timings, "prompt_ms"))
                 + Number(Get(timings, "predicted_ms"))
            ELSE since
        cachedTokens ==
            IF hasTimings /\ Exists(Get(timings, "cache_n"))
            THEN Number(Get(timings, "cache_n"))
            ELSE usageCachedTokens(usage)
    IN  [CachedTokens |-> cachedTokens,
         InputTokens |-> inputTokens,
         OutputTokens |-> outputTokens,
         PromptPerSecond |-> promptPerSecond,
         TokensPerSecond |->
             calculatedRate(tokensPerSecond, outputTokens, durationMs),
         DurationMs |-> durationMs]

\* next() has returned with one JSON value in the recorder's buffer
jsonRecorded(t) ==
    /\ wh[t].pc = "idle"
    /\ \E usage \in Usages, timings \in Timings :
          wh' = [wh EXCEPT ![t].pc = "parse",
                    ![t].copier.body =
                        <<[usage |-> usage, timings |-> timings]>>]
    /\ NoCallReturn
    /\ UNCHANGED <<metrics, nextID, maxMetrics, mu, inserted>>
    /\ UNCHANGED pvars

\* parseMetrics() builds the record; since is kept beside it
parseRecorded(t) ==
    LET parsed == wh[t].copier.body[1]
    IN  /\ wh[t].pc = "parse"
        /\ \E since \in Elapsed :
              wh' = [wh EXCEPT ![t].pc = "parsed",
                        ![t].metric =
                            [ID |-> 0, since |-> since,
                             kind |-> parseMetrics(Exists(parsed.usage)
                                                   \/ Exists(parsed.timings)),
                             tm |-> parseTokenMetrics(parsed.usage,
                                                      parsed.timings, since)]]
        /\ NoCallReturn
        /\ UNCHANGED <<metrics, nextID, maxMetrics, mu, inserted>>
        /\ UNCHANGED pvars

\* wrapHandler() returns
DropParsed(t) ==
    /\ wh[t].pc = "parsed"
    /\ wh' = [wh EXCEPT ![t] = WhIdle]
    /\ NoCallReturn
    /\ UNCHANGED <<metrics, nextID, maxMetrics, mu, inserted>>
    /\ UNCHANGED pvars

NextParse ==
    \/ jsonRecorded(<<"req", 1>>)
    \/ parseRecorded(<<"req", 1>>)
    \/ DropParsed(<<"req", 1>>)

SpecParse == InitScan /\ [][NextParse]_vars

\* the value of field key the response supplies through object obj, or
\* default when it supplies none
Supplied(obj, key, default) ==
    IF Exists(Get(obj, key)) THEN Get(obj, key)[1] ELSE default

\* C39 as stated: token counts, rates, duration and cached tokens come from
\* timings whenever a timings object is present and otherwise from usage,
\* and every field the response does not supply keeps its default:
\* CachedTokens = -1, PromptPerSecond = -1.0, TokensPerSecond = -1.0 unless
\* it is computed from the measured duration, token counts = 0.
C39_AsStated ==
    \A t \in ReqThreads :
       wh[t].pc = "parsed" =>
          LET usage == wh[t].copier.body[1].usage
              timings == wh[t].copier.body[1].timings
              tm == wh[t].metric.tm
          IN  IF Exists(timings)
              THEN /\ tm.InputTokens = Supplied(timings, "prompt_n", 0)
                   /\ tm.OutputTokens = Supplied(timings, "predicted_n", 0)
                   /\ tm.PromptPerSecond =
                         Rate(Supplied(timings, "prompt_per_second", -1), 1)
                   /\ Exists(Get(timings, "predicted_per_second")) =>
                         tm.TokensPerSecond =
                            Rate(Get(timings, "predicted_per_second")[1], 1)
                   /\ Exists(Get(timings, "cache_n")) =>
                         tm.CachedTokens = Get(timings, "cache_n")[1]
                   /\ (~Exists(Get(timings, "cache_n"))
                       /\ ~Exists(Get(usage, "cache_read_input_tokens"))) =>
                         tm.CachedTokens = -1
              ELSE /\ tm.InputTokens = usageInputTokens(usage)
                   /\ tm.OutputTokens = usageOutputTokens(usage)
                   /\ tm.CachedTokens =
                         Supplied(usage, "cache_read_input_tokens", -1)
                   /\ tm.PromptPerSecond = Rate(-1, 1)
                   /\ tm.DurationMs = wh[t].metric.since
                   /\ tm.TokensPerSecond \in
                         {Rate(-1, 1),
                          Rate(tm.OutputTokens * 1000, tm.DurationMs)}

\* the backend supplies an output rate: timings has predicted_per_second
SuppliesRate(timings) == Exists(Get(timings, "predicted_per_second"))

\* C40 as stated: when the backend supplies no output rate, TokensPerSecond
\* is OutputTokens / (DurationMs / 1000) if OutputTokens > 0 and
\* DurationMs > 0 and stays -1.0 if either is zero, so nothing is divided
\* by zero; a rate supplied by the backend's timings is never replaced by
\* the computed one.
C40_AsStated ==
    \A t \in ReqThreads :
       wh[t].pc = "parsed" =>
          LET timings == wh[t].copier.body[1].timings
              tm == wh[t].metric.tm
          IN  /\ tm.TokensPerSecond.den # 0
              /\ IF SuppliesRate(timings)
                 THEN tm.TokensPerSecond =
                         Rate(Get(timings, "predicted_per_second")[1], 1)
                 ELSE IF tm.OutputTokens > 0 /\ tm.DurationMs > 0
                 THEN tm.TokensPerSecond =
                         Rate(tm.OutputTokens * 1000, tm.DurationMs)
                 ELSE tm.TokensPerSecond = Rate(-1, 1)

====
